---------------------------- MODULE Spec2Model ----------------------------
(***************************************************************************)
(* Model of the algorithmic core of projet-film:                           *)
(*   src/src/graph/calculSimilarites.py     similarity scores, all edges   *)
(*   src/src/graph/filtrageGraphe.py        threshold filter               *)
(*   src/src/reco/algorithmeRecommandation.py   recommendation             *)
(*                                                                         *)
(* Numbers.  Python floats are modelled by exact rationals [n, d] kept in  *)
(* lowest terms (d > 0).  Edge weights, which the code rounds to 4         *)
(* decimals, and thresholds are integers counted in 1/10000.  Strings are  *)
(* sequences of one-character strings; None and "" (both falsy in the      *)
(* code's tests) are the empty sequence; an absent year is 0 (falsy too).  *)
(***************************************************************************)
EXTENDS Integers, Sequences, FiniteSets

VARIABLES
    pc,                 \* position of the running operation
    film1, film2,       \* arguments of calculer_poids
    poids_12, poids_21, \* calculer_poids(film1, film2), calculer_poids(film2, film1)
    films_data,         \* the ordered records
    aretes,             \* the edge list (built by calculer_toutes_aretes, or given)
    i, j,               \* loop indices of calculer_toutes_aretes
    seuil, seuil2,      \* thresholds given to filtrer_aretes
    aretes_filtrees, aretes_filtrees2,  \* filtrer_aretes(aretes, seuil), (aretes, seuil2)
    titres_connus, nb_films_saisis, top_n, penaliser_populaires, \* arguments of recommander
    indices_connus,     \* recommander: the known indices
    scores,             \* recommander: calculer_scores_recommandation's result, in dict order
    scores_penalises,   \* recommander: the scores after the optional penalty
    tries,              \* recommander: the candidates after the sort (line 196)
    recommandations,    \* recommander: the returned list
    aretes_plus,        \* the edge list with the weight of one edge raised
    scores_plus,        \* calculer_scores_recommandation on aretes_plus
    positions,          \* calculer_layout_simple: positions[k] is the position of record k - 1
    forces,             \* calculer_layout_simple: the forces of the current iteration
    iteration,          \* calculer_layout_simple: the loop variable of line 54
    paires_perm,        \* the node pairs in another order of visit
    aretes_perm,        \* the edges of aretes in another order
    positions_perm,     \* calculer_layout_simple on paires_perm and aretes_perm
    cache,              \* output/films_data.json: the records on disk
    liste_films,        \* do_POST: the titles submitted in the current request
    enrichir,           \* do_POST: payload "enrichir"
    requetes,           \* number of /api/reco requests answered
    films_entree,       \* enrichir_base_films: the list as it was passed in
    nouveaux_ids,       \* enrichir_base_films: the films found, by the record they scrape to
    a_scraper,          \* enrichir_base_films: the films of nouveaux_ids not visited yet
    diviseurs           \* the divisors of the divisions the last step evaluated,
                        \* each with the place of its division

poidsVars  == <<film1, film2, poids_12, poids_21>>
aretesVars == <<films_data, aretes, i, j>>
filtreVars == <<seuil, seuil2, aretes_filtrees, aretes_filtrees2>>
recoVars   == <<titres_connus, nb_films_saisis, top_n, penaliser_populaires,
                indices_connus, scores, scores_penalises, tries, recommandations>>
monoVars == <<aretes_plus, scores_plus>>
serveurVars == <<cache, liste_films, enrichir, requetes>>
enrichirVars == <<films_entree, nouveaux_ids, a_scraper>>
ordreVars == <<paires_perm, aretes_perm, positions_perm, serveurVars, enrichirVars>>
layoutVars == <<positions, forces, iteration, ordreVars>>
vars == <<pc, poidsVars, aretesVars, filtreVars, recoVars, monoVars, layoutVars, diviseurs>>

(***************************************************************************)
(* Bounds of the model                                                     *)
(***************************************************************************)
MaxEcart == 1       \* years range over AnneeBase .. AnneeBase + MaxEcart
MaxFilms == 3       \* at most MaxFilms records in a run
MaxTop   == 2       \* top_n ranges over 0 .. MaxTop

AnneeBase == 2000
DegreMoyeu == 22
MaxEntree == 2      \* enrichir_base_films is given at most MaxEntree records
MaxSaisis == 2      \* at most MaxSaisis titles in a request
MaxRequetes == 2    \* at most MaxRequetes requests in a run
AnneeAbsente == 0   \* "not annee": None and 0 are both absent

(***************************************************************************)
(* Exact rationals                                                         *)
(***************************************************************************)
RECURSIVE PGCD(_, _)
PGCD(a, b) == IF b = 0 THEN a ELSE PGCD(b, a % b)

Abs(x) == IF x < 0 THEN -x ELSE x

Q(n, d) ==
    LET g == PGCD(Abs(n), d)
    IN  [n |-> n \div g, d |-> d \div g]

Zero == [n |-> 0, d |-> 1]
Un   == [n |-> 1, d |-> 1]

PPCM(a, b) == (a \div PGCD(a, b)) * b

AddQ(x, y) ==
    LET m == PPCM(x.d, y.d)
    IN  Q(x.n * (m \div x.d) + y.n * (m \div y.d), m)

MulQ(x, y) ==
    LET a == Q(x.n, y.d)
        b == Q(y.n, x.d)
    IN  Q(a.n * b.n, a.d * b.d)

LeQ(x, y) == x.n * y.d <= y.n * x.d
LtQ(x, y) == x.n * y.d <  y.n * x.d
MinQ(x, y) == IF LeQ(x, y) THEN x ELSE y
MaxQ(x, y) == IF LeQ(x, y) THEN y ELSE x

(***************************************************************************)
(* Strings                                                                 *)
(***************************************************************************)
Minuscule(c) ==
    CASE c = "A" -> "a" [] c = "B" -> "b" [] c = "C" -> "c"
      [] c = "N" -> "n" [] c = "S" -> "s" [] OTHER -> c

Majuscule(c) ==
    CASE c = "a" -> "A" [] c = "b" -> "B" [] c = "c" -> "C"
      [] c = "n" -> "N" [] c = "s" -> "S" [] OTHER -> c

lower(s) == [k \in 1..Len(s) |-> Minuscule(s[k])]
upper(s) == [k \in 1..Len(s) |-> Majuscule(s[k])]

EstEspace(c) == c = " "
EstChiffre(c) == c \in {"0", "1", "2", "3", "4", "5", "6", "7", "8", "9"}

RECURSIVE SansEspacesDebut(_)
SansEspacesDebut(s) ==
    IF s = <<>> THEN s
    ELSE IF EstEspace(Head(s)) THEN SansEspacesDebut(Tail(s)) ELSE s

RECURSIVE SansEspacesFin(_)
SansEspacesFin(s) ==
    IF s = <<>> THEN s
    ELSE IF EstEspace(s[Len(s)]) THEN SansEspacesFin(SubSeq(s, 1, Len(s) - 1)) ELSE s

\* str.strip()
strip(s) == SansEspacesFin(SansEspacesDebut(s))

RECURSIVE FusionnerEspaces(_)
FusionnerEspaces(s) ==
    IF Len(s) <= 1 THEN s
    ELSE IF EstEspace(s[1]) /\ EstEspace(s[2]) THEN FusionnerEspaces(Tail(s))
    ELSE <<s[1]>> \o FusionnerEspaces(Tail(s))

\* " ".join(s.split())
joindre_mots(s) == FusionnerEspaces(strip(s))

\* whether s ends with "(dddd)", the tail that \(\d{4}\)\s*$ matches in a stripped s
FinitParAnnee(s) ==
    LET n == Len(s)
    IN  /\ n >= 6
        /\ s[n - 5] = "(" /\ s[n] = ")"
        /\ \A k \in (n - 4)..(n - 1) : EstChiffre(s[k])

(***************************************************************************)
(* calculSimilarites.py                                                    *)
(***************************************************************************)
calculer_similarite_acteurs_asym(f1, f2) ==
    LET acteurs1 == f1.acteurs
        acteurs2 == f2.acteurs
        communs  == Cardinality(acteurs1 \cap acteurs2)
        total    == Cardinality(acteurs1)
        score    == Q(communs, total)
    IN  IF acteurs1 = {} \/ acteurs2 = {} THEN Zero
        ELSE IF communs > 1
             THEN MinQ(Un, MulQ(score, AddQ(Un, MulQ(Q(2, 10), Q(communs, 1)))))
             ELSE score

calculer_similarite_acteurs_bonus_des_un(f1, f2) ==
    LET acteurs1 == f1.acteurs
        acteurs2 == f2.acteurs
        communs  == Cardinality(acteurs1 \cap acteurs2)
        total    == Cardinality(acteurs1 \cup acteurs2)
        score    == Q(communs, total)
    IN  IF acteurs1 = {} \/ acteurs2 = {} THEN Zero
        ELSE IF total = 0 THEN Zero
        ELSE IF communs >= 1
             THEN MinQ(Un, MulQ(score, AddQ(Un, MulQ(Q(2, 10), Q(communs, 1)))))
             ELSE score

\* lines 14-39
calculer_similarite_acteurs(f1, f2) ==
    LET acteurs1 == f1.acteurs
        acteurs2 == f2.acteurs
        communs  == Cardinality(acteurs1 \cap acteurs2)
        total    == Cardinality(acteurs1 \cup acteurs2)
        score    == Q(communs, total)
    IN  IF acteurs1 = {} \/ acteurs2 = {} THEN Zero
        ELSE IF total = 0 THEN Zero
        ELSE IF communs > 1
             THEN MinQ(Un, MulQ(score, AddQ(Un, MulQ(Q(2, 10), Q(communs, 1)))))
             ELSE score

calculer_similarite_realisateur_casse(f1, f2) ==
    LET real1 == f1.realisateur
        real2 == f2.realisateur
    IN  IF real1 = <<>> \/ real2 = <<>> THEN Zero
        ELSE IF real1 = real2 THEN Un ELSE Zero

\* lines 42-53
calculer_similarite_realisateur(f1, f2) ==
    LET real1 == f1.realisateur
        real2 == f2.realisateur
    IN  IF real1 = <<>> \/ real2 = <<>> THEN Zero
        ELSE IF lower(real1) = lower(real2) THEN Un ELSE Zero

calculer_similarite_genres_par_supplementaire(f1, f2) ==
    LET genres1 == f1.genres
        genres2 == f2.genres
        communs == Cardinality(genres1 \cap genres2)
        total   == Cardinality(genres1 \cup genres2)
        score   == Q(communs, total)
    IN  IF genres1 = {} \/ genres2 = {} THEN Zero
        ELSE IF total = 0 THEN Zero
        ELSE IF communs > 1
             THEN MinQ(Un, MulQ(score, AddQ(Un, MulQ(Q(15, 100), Q(communs - 1, 1)))))
             ELSE score

\* lines 56-80
calculer_similarite_genres(f1, f2) ==
    LET genres1 == f1.genres
        genres2 == f2.genres
        communs == Cardinality(genres1 \cap genres2)
        total   == Cardinality(genres1 \cup genres2)
        score   == Q(communs, total)
    IN  IF genres1 = {} \/ genres2 = {} THEN Zero
        ELSE IF total = 0 THEN Zero
        ELSE IF communs > 1
             THEN MinQ(Un, MulQ(score, AddQ(Un, MulQ(Q(15, 100), Q(communs, 1)))))
             ELSE score

\* math.exp(-ecart / 10.0), to 4 decimals, for ecart = 1 .. 10; below 1/10000
\* precision the value is not represented.
ExpMoinsDixieme(ecart) ==
    LET table == <<9048, 8187, 7408, 6703, 6065, 5488, 4966, 4493, 4066, 3679>>
    IN  Q(table[ecart], 10000)

calculer_similarite_annee(f1, f2) ==
    LET annee1 == f1.annee
        annee2 == f2.annee
        ecart  == Abs(annee1 - annee2)
    IN  IF annee1 = AnneeAbsente \/ annee2 = AnneeAbsente THEN Zero
        ELSE IF ecart = 0 THEN Un
        ELSE ExpMoinsDixieme(ecart)

POIDS_ACTEURS     == Q(3, 10)
POIDS_REALISATEUR == Q(4, 10)
POIDS_GENRES      == Q(2, 10)
POIDS_ANNEE       == Q(1, 10)

calculer_poids_sans_borne(f1, f2) ==
    AddQ(AddQ(AddQ(MulQ(calculer_similarite_acteurs(f1, f2), POIDS_ACTEURS),
                   MulQ(calculer_similarite_realisateur(f1, f2), POIDS_REALISATEUR)),
              MulQ(calculer_similarite_genres(f1, f2), POIDS_GENRES)),
         MulQ(calculer_similarite_annee(f1, f2), Un))

calculer_poids(f1, f2) ==
    LET sim_acteurs     == calculer_similarite_acteurs(f1, f2)
        sim_realisateur == calculer_similarite_realisateur(f1, f2)
        sim_genres      == calculer_similarite_genres(f1, f2)
        sim_annee       == calculer_similarite_annee(f1, f2)
        poids_total     ==
            AddQ(AddQ(AddQ(MulQ(sim_acteurs, POIDS_ACTEURS),
                           MulQ(sim_realisateur, POIDS_REALISATEUR)),
                      MulQ(sim_genres, POIDS_GENRES)),
                 MulQ(sim_annee, POIDS_ANNEE))
    IN  MaxQ(Zero, MinQ(Un, poids_total))

\* round(poids, 4), in 1/10000: the nearest multiple, the even one at a tie.
Arrondir4(q) ==
    LET c100  == (q.n * 100) \div q.d
        r100  == (q.n * 100) % q.d
        bas   == c100 * 100 + ((r100 * 100) \div q.d)
        reste == (r100 * 100) % q.d
    IN  IF 2 * reste > q.d \/ (2 * reste = q.d /\ bas % 2 = 1) THEN bas + 1 ELSE bas

\* The dictionary appended at lines 150-154, for 0-based i and j.
Arete(films, a, b) ==
    [from |-> a, to |-> b, weight |-> Arrondir4(calculer_poids(films[a + 1], films[b + 1]))]

(***************************************************************************)
(* filtrageGraphe.py                                                       *)
(***************************************************************************)
SEUIL_POIDS == 5000

\* a.get("weight", 0)
Poids(a) == IF "weight" \in DOMAIN a THEN a.weight ELSE 0

filtrer_aretes_strict(as, s) ==
    LET Garde(a) == Poids(a) > s
    IN  SelectSeq(as, Garde)

filtrer_aretes_inverse(as, s) ==
    LET Garde(a) == Poids(a) <= s
    IN  SelectSeq(as, Garde)

filtrer_aretes(as, s) ==
    LET Garde(a) == Poids(a) >= s
    IN  SelectSeq(as, Garde)

(***************************************************************************)
(* algorithmeRecommandation.py                                             *)
(***************************************************************************)
_normaliser_titre_reco(titre) ==
    IF titre = <<>> THEN <<>>
    ELSE LET t  == strip(titre)
             t2 == IF FinitParAnnee(t)
                   THEN SansEspacesFin(SubSeq(t, 1, Len(t) - 6))
                   ELSE t
         IN  joindre_mots(upper(t2))

\* identifier_films_connus.normalize
normalize(value) == joindre_mots(upper(value))

EstPrefixe(p, t) == p # <<>> /\ Len(p) <= Len(t) /\ SubSeq(t, 1, Len(p)) = p

identifier_films_connus_partiel(films, titres) ==
    LET titres_norm == {normalize(t) : t \in titres}
    IN  {k - 1 : k \in {x \in 1..Len(films) :
                          \E t \in titres_norm :
                              \/ EstPrefixe(normalize(films[x].titre), t)
                              \/ EstPrefixe(normalize(films[x].titre_original), t)}}

\* lines 39-61
identifier_films_connus(films, titres) ==
    LET titres_norm == {normalize(t) : t \in titres}
    IN  {k - 1 : k \in {x \in 1..Len(films) :
                          \/ normalize(films[x].titre) \in titres_norm
                          \/ normalize(films[x].titre_original) \in titres_norm}}

Cumuler_soustrait(acc, idx, poids) ==
    IF \E k \in 1..Len(acc) : acc[k].idx = idx
    THEN [k \in 1..Len(acc) |->
            IF acc[k].idx = idx
            THEN [acc[k] EXCEPT !.score_total = @ - poids, !.nb_connexions = @ + 1]
            ELSE acc[k]]
    ELSE Append(acc, [idx |-> idx, score_total |-> 0 - poids, nb_connexions |-> 1])

\* scores[idx] += poids ; nombre_connexions[idx] += 1, on dictionaries kept in
\* insertion order
Cumuler(acc, idx, poids) ==
    IF \E k \in 1..Len(acc) : acc[k].idx = idx
    THEN [k \in 1..Len(acc) |->
            IF acc[k].idx = idx
            THEN [acc[k] EXCEPT !.score_total = @ + poids, !.nb_connexions = @ + 1]
            ELSE acc[k]]
    ELSE Append(acc, [idx |-> idx, score_total |-> poids, nb_connexions |-> 1])

\* Every edge scores its endpoints that are not known, whatever the other
\* endpoint is.
RECURSIVE ParcourirAretes_tout(_, _, _, _)
ParcourirAretes_tout(as, k, connus, acc) ==
    IF k > Len(as) THEN acc
    ELSE LET from_idx == as[k].from
             to_idx   == as[k].to
             poids    == Poids(as[k])
         IN  IF to_idx \notin connus
             THEN ParcourirAretes_tout(as, k + 1, connus, Cumuler(acc, to_idx, poids))
             ELSE IF from_idx \notin connus
             THEN ParcourirAretes_tout(as, k + 1, connus, Cumuler(acc, from_idx, poids))
             ELSE ParcourirAretes_tout(as, k + 1, connus, acc)

\* lines 74-85, from edge number k on
RECURSIVE ParcourirAretes(_, _, _, _)
ParcourirAretes(as, k, connus, acc) ==
    IF k > Len(as) THEN acc
    ELSE LET from_idx == as[k].from
             to_idx   == as[k].to
             poids    == Poids(as[k])
         IN  IF from_idx \in connus /\ to_idx \notin connus
             THEN ParcourirAretes(as, k + 1, connus, Cumuler(acc, to_idx, poids))
             ELSE IF to_idx \in connus /\ from_idx \notin connus
             THEN ParcourirAretes(as, k + 1, connus, Cumuler(acc, from_idx, poids))
             ELSE ParcourirAretes(as, k + 1, connus, acc)

Max(a, b) == IF a >= b THEN a ELSE b
Min(a, b) == IF a <= b THEN a ELSE b

\* A scoring that gives every unknown record an entry, 0 without connection.
RECURSIVE TousDepuis(_, _, _, _)
TousDepuis(films, acc, connus, u) ==
    IF u >= Len(films) THEN <<>>
    ELSE (IF u \in connus THEN <<>>
          ELSE IF \E k \in 1..Len(acc) : acc[k].idx = u
          THEN LET k == CHOOSE m \in 1..Len(acc) : acc[m].idx = u
               IN  <<[idx |-> u,
                      score |-> Q(acc[k].score_total, Max(1, acc[k].nb_connexions)),
                      score_total |-> acc[k].score_total,
                      nb_connexions |-> acc[k].nb_connexions]>>
          ELSE <<[idx |-> u, score |-> Zero, score_total |-> 0, nb_connexions |-> 0]>>)
         \o TousDepuis(films, acc, connus, u + 1)

calculer_scores_recommandation_tous(films, as, connus) ==
    IF Cardinality(connus) = 0 THEN <<>>
    ELSE TousDepuis(films, ParcourirAretes(as, 1, connus, <<>>), connus, 0)

calculer_scores_recommandation_par_connus(films, as, connus) ==
    LET acc == ParcourirAretes(as, 1, connus, <<>>)
    IN  IF Cardinality(connus) = 0 THEN <<>>
        ELSE [k \in 1..Len(acc) |->
                [idx |-> acc[k].idx,
                 score |-> Q(acc[k].score_total, Cardinality(connus)),
                 score_total |-> acc[k].score_total,
                 nb_connexions |-> acc[k].nb_connexions]]

calculer_scores_recommandation(films, as, connus) ==
    LET acc == ParcourirAretes(as, 1, connus, <<>>)
    IN  IF Cardinality(connus) = 0 THEN <<>>
        ELSE [k \in 1..Len(acc) |->
                [idx |-> acc[k].idx,
                 score |-> Q(acc[k].score_total, Max(1, acc[k].nb_connexions)),
                 score_total |-> acc[k].score_total,
                 nb_connexions |-> acc[k].nb_connexions]]

Degre_sortant(as, idx) ==
    Cardinality({k \in 1..Len(as) : as[k].from = idx})

\* degres[idx] after lines 111-114; 0 for a node no edge touches
Degre(as, idx) ==
    Cardinality({k \in 1..Len(as) : as[k].from = idx})
    + Cardinality({k \in 1..Len(as) : as[k].to = idx})

SubQ(x, y) == AddQ(x, [n |-> 0 - y.n, d |-> y.d])
DivQ(x, y) == MulQ(x, [n |-> y.d, d |-> y.n])

penaliser_films_populaires_soustrait(sc, as) ==
    LET noeuds == {as[k].from : k \in 1..Len(as)} \cup {as[k].to : k \in 1..Len(as)}
        degre_moyen == Q(2 * Len(as), Cardinality(noeuds))
        facteur_penalite == Q(1, 10)
        Penalise(data) ==
            LET degre == Degre(as, data.idx)
                penalite == MulQ(DivQ(SubQ(Q(degre, 1), degre_moyen), degre_moyen),
                                 facteur_penalite)
            IN  [idx |-> data.idx,
                 score |-> IF LtQ(degre_moyen, Q(degre, 1))
                           THEN SubQ(data.score, penalite)
                           ELSE data.score,
                 score_total |-> data.score_total,
                 nb_connexions |-> data.nb_connexions,
                 degre |-> degre]
    IN  IF noeuds = {} THEN sc
        ELSE [k \in 1..Len(sc) |-> Penalise(sc[k])]

\* lines 105-140
penaliser_films_populaires(sc, as) ==
    LET noeuds == {as[k].from : k \in 1..Len(as)} \cup {as[k].to : k \in 1..Len(as)}
        degre_moyen == Q(2 * Len(as), Cardinality(noeuds))
        facteur_penalite == Q(1, 10)
        Penalise(data) ==
            LET degre == Degre(as, data.idx)
                penalite == MulQ(DivQ(SubQ(Q(degre, 1), degre_moyen), degre_moyen),
                                 facteur_penalite)
            IN  [idx |-> data.idx,
                 score |-> IF LtQ(degre_moyen, Q(degre, 1))
                           THEN MulQ(data.score, SubQ(Un, penalite))
                           ELSE data.score,
                 score_total |-> data.score_total,
                 nb_connexions |-> data.nb_connexions,
                 degre |-> degre]
    IN  IF noeuds = {} THEN sc
        ELSE [k \in 1..Len(sc) |-> Penalise(sc[k])]

\* The divisors of line 95, one per scored node.
diviseurs_scores(sc) ==
    {[de |-> "connexions", val |-> Q(Max(1, sc[k].nb_connexions), 1)] : k \in 1..Len(sc)}

\* The divisors of line 120 (len(degres)) and of line 128 (degre_moyen, for
\* the nodes the penalty applies to); none when line 118 returns.
diviseurs_penalite(sc, as) ==
    LET noeuds == {as[k].from : k \in 1..Len(as)} \cup {as[k].to : k \in 1..Len(as)}
        degre_moyen == Q(2 * Len(as), Cardinality(noeuds))
    IN  IF noeuds = {} THEN {}
        ELSE {[de |-> "len_degres", val |-> Q(Cardinality(noeuds), 1)]}
             \cup {[de |-> "degre_moyen", val |-> degre_moyen] :
                      k \in {m \in 1..Len(sc) :
                               LtQ(degre_moyen, Q(Degre(as, sc[m].idx), 1))}}

\* set(range(min(nb_films_saisis, len(films_data))))
indices_premiers_moins_un(nb, n) == 0..(nb - 2)

indices_premiers(nb, n) == 0..(Min(nb, n) - 1)

\* lines 191-194: the candidates, in the order of the score dictionary
Candidats(films, sc, connus) ==
    LET Garde(data) == data.idx \notin connus
        gardes == SelectSeq(sc, Garde)
    IN  [k \in 1..Len(gardes) |->
            [idx |-> gardes[k].idx, score |-> gardes[k].score,
             film |-> films[gardes[k].idx + 1]]]

\* list.sort(key = score, reverse = True): stable, equal scores keep their order
RECURSIVE InsererCroissant(_, _)
InsererCroissant(liste, item) ==
    IF liste = <<>> THEN <<item>>
    ELSE IF LeQ(Head(liste).score, item.score)
         THEN <<Head(liste)>> \o InsererCroissant(Tail(liste), item)
         ELSE <<item>> \o liste

RECURSIVE InsererDecroissant(_, _)
InsererDecroissant(liste, item) ==
    IF liste = <<>> THEN <<item>>
    ELSE IF LeQ(item.score, Head(liste).score)
         THEN <<Head(liste)>> \o InsererDecroissant(Tail(liste), item)
         ELSE <<item>> \o liste

RECURSIVE TrierDepuis(_, _, _)
TrierDepuis(liste, k, tri) ==
    IF k > Len(liste) THEN tri
    ELSE TrierDepuis(liste, k + 1, InsererDecroissant(tri, liste[k]))

RECURSIVE TrierCroissantDepuis(_, _, _)
TrierCroissantDepuis(liste, k, tri) ==
    IF k > Len(liste) THEN tri
    ELSE TrierCroissantDepuis(liste, k + 1, InsererCroissant(tri, liste[k]))

trier_par_score_croissant(liste) == TrierCroissantDepuis(liste, 1, <<>>)

trier_par_score(liste) == TrierDepuis(liste, 1, <<>>)

\* the title line 203-205 normalises
TitreReco(film) ==
    _normaliser_titre_reco(
        IF film.titre # <<>> THEN film.titre ELSE film.titre_original)

\* vus is never filled: nothing is dropped
Dedupliquer_sans_vus(liste, k, vus, dedup) == dedup \o SubSeq(liste, k, Len(liste))

\* an empty normalised title is recorded and dropped like any other
RECURSIVE Dedupliquer_vides_aussi(_, _, _, _)
Dedupliquer_vides_aussi(liste, k, vus, dedup) ==
    IF k > Len(liste) THEN dedup
    ELSE LET titre_norm == TitreReco(liste[k].film)
         IN  IF titre_norm \in vus
             THEN Dedupliquer_vides_aussi(liste, k + 1, vus, dedup)
             ELSE Dedupliquer_vides_aussi(liste, k + 1, vus \cup {titre_norm},
                                          Append(dedup, liste[k]))

\* lines 199-210, from item number k on
RECURSIVE Dedupliquer(_, _, _, _)
Dedupliquer(liste, k, vus, dedup) ==
    IF k > Len(liste) THEN dedup
    ELSE LET titre_norm == TitreReco(liste[k].film)
         IN  IF titre_norm # <<>> /\ titre_norm \in vus
             THEN Dedupliquer(liste, k + 1, vus, dedup)
             ELSE Dedupliquer(liste, k + 1,
                              IF titre_norm # <<>> THEN vus \cup {titre_norm} ELSE vus,
                              Append(dedup, liste[k]))

\* recommandations[:top_n], for top_n >= 0
Tronquer(liste, n) == SubSeq(liste, 1, Min(n, Len(liste)))

tronquer_puis_dedupliquer(liste, n) == Dedupliquer(Tronquer(liste, n), 1, {}, <<>>)

\* lines 198-213
dedupliquer_puis_tronquer(liste, n) == Tronquer(Dedupliquer(liste, 1, {}, <<>>), n)

Retour(connus, sc, pen, tri, reco) ==
    [indices_connus |-> connus, scores |-> sc, scores_penalises |-> pen,
     tries |-> tri, recommandations |-> reco]

recommander_titres_dabord(films, as, titres, n, penaliser, nb) ==
    IF ~(nb > 0) /\ titres = {} THEN Retour({}, <<>>, <<>>, <<>>, <<>>)
    ELSE
    LET connus == IF titres # {} THEN identifier_films_connus(films, titres)
                  ELSE indices_premiers(nb, Len(films))
        sc     == calculer_scores_recommandation(films, as, connus)
        pen    == IF penaliser THEN penaliser_films_populaires(sc, as) ELSE sc
        tri    == trier_par_score(Candidats(films, pen, connus))
    IN  IF connus = {} THEN Retour(connus, <<>>, <<>>, <<>>, <<>>)
        ELSE IF sc = <<>> THEN Retour(connus, sc, <<>>, <<>>, <<>>)
        ELSE Retour(connus, sc, pen, tri, dedupliquer_puis_tronquer(tri, n))

\* recommander, with every local it computes; nb = 0 stands for None as well
\* (line 163 treats None and every nb <= 0 alike)
recommander(films, as, titres, n, penaliser, nb) ==
    IF ~(nb > 0) /\ titres = {} THEN Retour({}, <<>>, <<>>, <<>>, <<>>)
    ELSE
    LET connus == IF nb > 0 THEN indices_premiers(nb, Len(films))
                  ELSE identifier_films_connus(films, titres)
        sc     == calculer_scores_recommandation(films, as, connus)
        pen    == IF penaliser THEN penaliser_films_populaires(sc, as) ELSE sc
        tri    == trier_par_score(Candidats(films, pen, connus))
    IN  IF connus = {} THEN Retour(connus, <<>>, <<>>, <<>>, <<>>)
        ELSE IF sc = <<>> THEN Retour(connus, sc, <<>>, <<>>, <<>>)
        ELSE Retour(connus, sc, pen, tri, dedupliquer_puis_tronquer(tri, n))

(***************************************************************************)
(* Input domains                                                           *)
(***************************************************************************)
Acteurs == {"a1", "a2", "a3"}
Genres  == {"Action", "Drama"}
Realisateurs == {<<>>, <<"N", "o">>, <<"n", "o">>, <<"S", "c">>}
Annees  == {AnneeAbsente} \cup (AnneeBase .. AnneeBase + MaxEcart)

FilmsPoids ==
    [titre : {<<>>}, titre_original : {<<>>},
     acteurs : SUBSET Acteurs, realisateur : Realisateurs,
     genres : SUBSET Genres, annee : Annees]

Vide == <<>>

poidsRepos  == /\ film1 = Vide /\ film2 = Vide /\ poids_12 = Zero /\ poids_21 = Zero
aretesRepos == /\ films_data = <<>> /\ aretes = <<>> /\ i = 0 /\ j = 0
filtreRepos == /\ seuil = 0 /\ seuil2 = 0
               /\ aretes_filtrees = <<>> /\ aretes_filtrees2 = <<>>
recoRepos   == /\ titres_connus = {} /\ nb_films_saisis = 0 /\ top_n = 0
               /\ penaliser_populaires = FALSE
               /\ indices_connus = {} /\ scores = <<>> /\ scores_penalises = <<>>
               /\ tries = <<>> /\ recommandations = <<>>
monoRepos   == /\ aretes_plus = <<>> /\ scores_plus = <<>>
serveurRepos == /\ cache = <<>> /\ liste_films = <<>> /\ enrichir = FALSE /\ requetes = 0
enrichirRepos == /\ films_entree = <<>> /\ nouveaux_ids = {} /\ a_scraper = {}
ordreRepos  == /\ paires_perm = <<>> /\ aretes_perm = <<>> /\ positions_perm = <<>>
               /\ serveurRepos /\ enrichirRepos
layoutRepos == /\ positions = <<>> /\ forces = <<>> /\ iteration = 0 /\ ordreRepos

(***************************************************************************)
(* Input domains of the graph builder and of the filter                    *)
(***************************************************************************)
\* Records whose pairwise weights include 0, 1 and values that need rounding.
FilmsAretes ==
    {f \in FilmsPoids :
        /\ \/ f.acteurs = {} /\ f.genres = {}
           \/ f.acteurs = {"a1"} /\ f.genres = {"Action"}
        /\ f.realisateur \in {<<>>, <<"N", "o">>}
        /\ f.annee \in {AnneeAbsente, AnneeBase, AnneeBase + 1}}

SuitesDe(S, n) == UNION {[1..m -> S] : m \in 0..n}

\* All pairs a < b of 0 .. n-1, in the order calculer_toutes_aretes visits them.
RECURSIVE PairesDepuis(_, _, _)
PairesDepuis(a, b, n) ==
    IF a >= n THEN <<>>
    ELSE IF b >= n THEN PairesDepuis(a + 1, a + 2, n)
    ELSE <<(<<a, b>>)>> \o PairesDepuis(a, b + 1, n)

ToutesPaires(n) == PairesDepuis(0, 1, n)

PoidsFiltre == {2000, 5000, 8000}
PoidsReco   == {2000, 8000}
Absent == 0 - 1

RECURSIVE AretesDe(_, _, _)
AretesDe(paires, choix, k) ==
    IF k > Len(paires) THEN <<>>
    ELSE IF choix[k] = Absent THEN AretesDe(paires, choix, k + 1)
    ELSE <<[from |-> paires[k][1], to |-> paires[k][2], weight |-> choix[k]]>>
         \o AretesDe(paires, choix, k + 1)

\* The edge lists a filter can leave of the all-pairs list of n records:
\* each pair at most once, in the builder's order, weights from the sample.
AretesPossibles(n, W) ==
    LET paires == ToutesPaires(n)
    IN  {AretesDe(paires, choix, 1) :
            choix \in [1..Len(paires) -> W \cup {Absent}]}

Seuils == {0, 2000, SEUIL_POIDS, 8000, 10000}

(***************************************************************************)
(* The graph builder: calculer_poids on a pair, both ways round, and the   *)
(* loop of calculer_toutes_aretes                                          *)
(***************************************************************************)
InitPoids ==
    /\ pc = "poids"
    /\ film1 \in FilmsPoids
    /\ film2 \in FilmsPoids
    /\ poids_12 = Zero /\ poids_21 = Zero
    /\ aretesRepos /\ filtreRepos /\ recoRepos
    /\ monoRepos /\ layoutRepos /\ diviseurs = {}

InitAretes ==
    /\ pc = "aretes"
    /\ films_data \in SuitesDe(FilmsAretes, MaxFilms)
    /\ aretes = <<>> /\ i = 0 /\ j = 1
    /\ poidsRepos /\ filtreRepos /\ recoRepos
    /\ monoRepos /\ layoutRepos /\ diviseurs = {}

\* Records that differ by their genres only, over four genre names.
GenresEtendus == Genres \cup {"Comedy", "Horror"}

FilmsGenres ==
    [titre : {<<>>}, titre_original : {<<>>},
     acteurs : {{}}, realisateur : {<<>>},
     genres : SUBSET GenresEtendus, annee : {AnneeAbsente}]

InitGenres ==
    /\ pc = "poids"
    /\ film1 \in FilmsGenres
    /\ film2 \in FilmsGenres
    /\ poids_12 = Zero /\ poids_21 = Zero
    /\ aretesRepos /\ filtreRepos /\ recoRepos
    /\ monoRepos /\ layoutRepos /\ diviseurs = {}

InitGraphe == InitPoids \/ InitAretes \/ InitGenres

CalculerPoids ==
    /\ pc = "poids"
    /\ poids_12' = calculer_poids(film1, film2)
    /\ poids_21' = calculer_poids(film2, film1)
    /\ pc' = "fini_poids"
    /\ UNCHANGED <<film1, film2, aretesVars, filtreVars, recoVars, monoVars, layoutVars, diviseurs>>

\* lines 148-154: one turn of the inner loop
AjouterArete ==
    /\ pc = "aretes"
    /\ i < Len(films_data)
    /\ j < Len(films_data)
    /\ aretes' = Append(aretes, Arete(films_data, i, j))
    /\ j' = j + 1
    /\ UNCHANGED <<pc, i, films_data, poidsVars, filtreVars, recoVars, monoVars, layoutVars, diviseurs>>

LigneSuivante_depuis_i ==
    /\ pc = "aretes"
    /\ i < Len(films_data)
    /\ j >= Len(films_data)
    /\ i' = i + 1
    /\ j' = i + 1
    /\ UNCHANGED <<pc, aretes, films_data, poidsVars, filtreVars, recoVars, monoVars, layoutVars, diviseurs>>

\* lines 147-148: the inner range is exhausted, the outer loop advances
LigneSuivante ==
    /\ pc = "aretes"
    /\ i < Len(films_data)
    /\ j >= Len(films_data)
    /\ i' = i + 1
    /\ j' = i + 2
    /\ UNCHANGED <<pc, aretes, films_data, poidsVars, filtreVars, recoVars, monoVars, layoutVars, diviseurs>>

\* line 156
RetournerAretes ==
    /\ pc = "aretes"
    /\ i >= Len(films_data)
    /\ pc' = "fini_aretes"
    /\ UNCHANGED <<aretes, i, j, films_data, poidsVars, filtreVars, recoVars, monoVars, layoutVars, diviseurs>>

NextGraphe == CalculerPoids \/ AjouterArete \/ LigneSuivante \/ RetournerAretes

SpecGraphe == InitGraphe /\ [][NextGraphe]_vars

(***************************************************************************)
(* filtrer_aretes, at two thresholds                                       *)
(***************************************************************************)
InitFiltre ==
    /\ pc = "filtre"
    /\ films_data = <<>>
    /\ aretes \in UNION {AretesPossibles(n, PoidsFiltre) : n \in 0..MaxFilms}
    /\ i = 0 /\ j = 0
    /\ seuil \in Seuils
    /\ seuil2 \in Seuils
    /\ aretes_filtrees = <<>> /\ aretes_filtrees2 = <<>>
    /\ poidsRepos /\ recoRepos
    /\ monoRepos /\ layoutRepos /\ diviseurs = {}

FiltrerAretes ==
    /\ pc = "filtre"
    /\ aretes_filtrees' = filtrer_aretes(aretes, seuil)
    /\ aretes_filtrees2' = filtrer_aretes(aretes, seuil2)
    /\ pc' = "fini_filtre"
    /\ UNCHANGED <<seuil, seuil2, aretesVars, poidsVars, recoVars, monoVars, layoutVars, diviseurs>>

NextFiltre == FiltrerAretes

SpecFiltre == InitFiltre /\ [][NextFiltre]_vars

(***************************************************************************)
(* recommander                                                             *)
(***************************************************************************)
Film(titre, titre_original) ==
    [titre |-> titre, titre_original |-> titre_original,
     acteurs |-> {}, realisateur |-> <<>>, genres |-> {}, annee |-> AnneeAbsente]

\* n records with pairwise different titles "a", "aa", "aaa", ...
FilmsDistincts(n) == [k \in 1..n |-> Film([x \in 1..k |-> "a"], <<>>)]

\* known titles that select the records "a" and "aa"
\* The last title is the title of no record of FilmsDistincts.
TitresConnusEchantillon == {<<"A">>, <<" ", "a", "a", " ">>, <<"a", "b">>}

\* records whose titles collide after normalisation, differ, or are absent
FilmsDoublons ==
    { Film(<<"A", "b">>, <<>>),
      Film(<<>>, <<" ", "a", "b", " ", " ", "(", "1", "9", "9", "9", ")">>),
      Film(<<"c">>, <<"A", "b">>),
      Film(<<>>, <<>>) }

\* An edge 0 -- k for every other record k of MaxFilms + 1, of either weight.
AretesEtoile ==
    LET paires == [k \in 1..MaxFilms |-> <<0, k>>]
    IN  {AretesDe(paires, choix, 1) : choix \in [1..MaxFilms -> PoidsReco]}

\* Edges 0 -- k and 1 -- k of MaxFilms + 1 records, each present or not.
AretesPopulaire ==
    LET paires == [k \in 1..MaxFilms |-> <<0, k>>]
                  \o [k \in 1..(MaxFilms - 1) |-> <<1, k + 1>>]
    IN  {AretesDe(paires, choix, 1) :
            choix \in [1..Len(paires) -> PoidsReco \cup {Absent}]}

\* A known record followed by MaxFilms records drawn from FilmsDoublons.
SuitesAvecDoublons ==
    {<<Film(<<"z">>, <<>>)>> \o f : f \in [1..MaxFilms -> FilmsDoublons]}

\* Any edge list over records with distinct titles; the known records given
\* by position or by title.
InitRecoGeneral ==
    /\ \E n \in 0..MaxFilms :
          /\ films_data = FilmsDistincts(n)
          /\ aretes \in AretesPossibles(n, PoidsReco)
          /\ \/ /\ nb_films_saisis \in 1..(n + 1)
                /\ titres_connus = {}
             \/ /\ nb_films_saisis = 1
                /\ titres_connus = TitresConnusEchantillon
             \/ /\ nb_films_saisis = 0
                /\ titres_connus \in SUBSET TitresConnusEchantillon
    /\ top_n \in {0, MaxTop}
    /\ penaliser_populaires \in BOOLEAN

\* The first record known, the others candidates whose titles may collide.
InitRecoDoublons ==
    /\ films_data \in SuitesAvecDoublons
    /\ aretes \in AretesEtoile
    /\ nb_films_saisis = 1
    /\ titres_connus = {}
    /\ top_n \in 0..MaxTop
    /\ penaliser_populaires = TRUE

\* The first record known, one more record than InitRecoGeneral allows, and a
\* candidate (record 1) that can have more edges than the others.
InitRecoPopulaire ==
    /\ films_data = FilmsDistincts(MaxFilms + 1)
    /\ aretes \in AretesPopulaire
    /\ nb_films_saisis = 1
    /\ titres_connus = {}
    /\ top_n \in 0..MaxTop
    /\ penaliser_populaires \in BOOLEAN

\* Three records, the first known, and the edges (0, 1, 0.8), (0, 2, 0.2),
\* (1, 2, 0.9).
AretesScenarioC ==
    << [from |-> 0, to |-> 1, weight |-> 8000],
       [from |-> 0, to |-> 2, weight |-> 2000],
       [from |-> 1, to |-> 2, weight |-> 9000] >>

InitRecoScenarioC ==
    /\ films_data = FilmsDistincts(3)
    /\ aretes = AretesScenarioC
    /\ nb_films_saisis = 1
    /\ titres_connus = {}
    /\ top_n \in 0..MaxTop
    /\ penaliser_populaires \in BOOLEAN

\* The known record 0, its one neighbour the record 1, and DegreMoyeu - 1
\* further records whose only edge goes to the record 1.
AretesMoyeu ==
    {<<[from |-> 0, to |-> 1, weight |-> w]>>
       \o [k \in 1..(DegreMoyeu - 1) |-> [from |-> 1, to |-> k + 1, weight |-> 10000]] :
     w \in PoidsReco}

InitRecoMoyeu ==
    /\ films_data = FilmsDistincts(DegreMoyeu + 1)
    /\ aretes \in AretesMoyeu
    /\ nb_films_saisis = 1
    /\ titres_connus = {}
    /\ top_n \in 0..MaxTop
    /\ penaliser_populaires \in BOOLEAN

InitReco ==
    /\ pc = "reco"
    /\ \/ InitRecoGeneral \/ InitRecoDoublons \/ InitRecoPopulaire
       \/ InitRecoScenarioC \/ InitRecoMoyeu
    /\ i = 0 /\ j = 0
    /\ indices_connus = {} /\ scores = <<>> /\ scores_penalises = <<>>
    /\ tries = <<>> /\ recommandations = <<>>
    /\ poidsRepos /\ filtreRepos
    /\ monoRepos /\ layoutRepos /\ diviseurs = {}

Recommander ==
    /\ pc = "reco"
    /\ \E r \in {recommander(films_data, aretes, titres_connus, top_n,
                              penaliser_populaires, nb_films_saisis)} :
           /\ indices_connus' = r.indices_connus
           /\ scores' = r.scores
           /\ scores_penalises' = r.scores_penalises
           /\ tries' = r.tries
           /\ recommandations' = r.recommandations
           /\ diviseurs' = diviseurs_scores(r.scores)
                            \cup (IF penaliser_populaires /\ r.scores # <<>>
                                  THEN diviseurs_penalite(r.scores, aretes)
                                  ELSE {})
    /\ pc' = "fini_reco"
    /\ UNCHANGED <<titres_connus, nb_films_saisis, top_n, penaliser_populaires,
                   aretesVars, poidsVars, filtreVars, monoVars, layoutVars>>

NextReco == Recommander

SpecReco == InitReco /\ [][NextReco]_vars

(***************************************************************************)
(* calculer_scores_recommandation on an edge list and on the same list     *)
(* with the weight of one edge raised                                      *)
(***************************************************************************)
\* The lists that differ from as by a larger weight on exactly one edge.
AretesRelevees(as) ==
    {[as EXCEPT ![k].weight = w] :
        <<k, w>> \in {c \in (1..Len(as)) \X PoidsReco : c[2] > as[c[1]].weight}}

InitScores ==
    /\ pc = "scores"
    /\ \E n \in 0..MaxFilms :
          /\ films_data = FilmsDistincts(n)
          /\ aretes \in AretesPossibles(n, PoidsReco)
          /\ indices_connus \in SUBSET (0..(n - 1))
    /\ aretes_plus \in AretesRelevees(aretes)
    /\ i = 0 /\ j = 0
    /\ titres_connus = {} /\ nb_films_saisis = 0 /\ top_n = 0
    /\ penaliser_populaires = FALSE
    /\ scores = <<>> /\ scores_penalises = <<>>
    /\ tries = <<>> /\ recommandations = <<>>
    /\ scores_plus = <<>>
    /\ poidsRepos /\ filtreRepos /\ layoutRepos /\ diviseurs = {}

CalculerScores ==
    /\ pc = "scores"
    /\ LET sc == calculer_scores_recommandation(films_data, aretes, indices_connus)
           sc_plus == calculer_scores_recommandation(films_data, aretes_plus,
                                                     indices_connus)
       IN  /\ scores' = sc
           /\ scores_plus' = sc_plus
           /\ diviseurs' = diviseurs_scores(sc) \cup diviseurs_scores(sc_plus)
    /\ pc' = "fini_scores"
    /\ UNCHANGED <<titres_connus, nb_films_saisis, top_n, penaliser_populaires,
                   indices_connus, scores_penalises, tries, recommandations,
                   aretes_plus, aretesVars, poidsVars, filtreVars, layoutVars>>

NextScores == CalculerScores

SpecScores == InitScores /\ [][NextScores]_vars

(***************************************************************************)
(* filtrageGraphe.calculer_layout_simple                                   *)
(*                                                                         *)
(* Coordinates and distances are integers counting fiftieths (the value v  *)
(* stands for v / 50), forces are integers counting tenths.  The division  *)
(* that gives a force keeps the integer part of the quotient, the square   *)
(* root the integer part of the root; sums, differences and the damping    *)
(* (0.8 x one tenth is four fiftieths) are exact.                          *)
(***************************************************************************)
\* the 0.1 added to every distance (lines 63 and 88), in fiftieths
EPSILON_DIST == 5

\* line 51
ITERATIONS == 50

\* arete.get("weight", 0.5), line 82, in 1/10000
PoidsLayout(a) == IF "weight" \in DOMAIN a THEN a.weight ELSE 5000

\* a / b for b > 0, rounded towards zero
DivT(a, b) == IF a >= 0 THEN a \div b ELSE 0 - ((0 - a) \div b)

\* the largest r in lo..hi with r * r <= x
RECURSIVE RacineEntre(_, _, _)
RacineEntre(x, lo, hi) ==
    IF lo >= hi THEN lo
    ELSE LET mid == (lo + hi + 1) \div 2
         IN  IF mid * mid <= x THEN RacineEntre(x, mid, hi)
             ELSE RacineEntre(x, lo, mid - 1)

\* math.sqrt
Racine(x) == RacineEntre(x, 0, 46340)

Nul == [x |-> 0, y |-> 0, z |-> 0]
Plus(u, v)  == [x |-> u.x + v.x, y |-> u.y + v.y, z |-> u.z + v.z]
Moins(u, v) == [x |-> u.x - v.x, y |-> u.y - v.y, z |-> u.z - v.z]

Dist_sans_epsilon(d) == Racine(d.x * d.x + d.y * d.y + d.z * d.z)

\* lines 63 and 88, d being (dx, dy, dz)
Dist(d) == Racine(d.x * d.x + d.y * d.y + d.z * d.z) + EPSILON_DIST

\* lines 65-69: force = k * k / dist with k * k = 15 * 15 / n, and
\* fx = (dx / dist) * force, which is dx * (225 / n) / dist^2; in tenths,
\* with dx and dist in fiftieths, dx * 225 * 500 / (n * dist^2)
ForceRepulsion(n, d) ==
    LET dist == Dist(d)
        c    == 15 * 15 * 500
    IN  [x |-> DivT(d.x * c, n * dist * dist),
         y |-> DivT(d.y * c, n * dist * dist),
         z |-> DivT(d.z * c, n * dist * dist)]

\* lines 91-94: force = dist * poids * 0.1 and fx = (dx / dist) * force, which
\* is dx * poids * 0.1; in tenths, with dx in fiftieths and poids in 1/10000,
\* dx * poids / 500000
ForceAttraction(poids, d) ==
    [x |-> DivT(d.x * poids, 500000),
     y |-> DivT(d.y * poids, 500000),
     z |-> DivT(d.z * poids, 500000)]

\* forces[a] += d and forces[b] -= d, nodes numbered from 1
Ajouter_ecrase(f, a, d) == [f EXCEPT ![a] = d]

Ajouter(f, a, d) == [f EXCEPT ![a] = Plus(@, d)]

Retirer_oublie(f, b, d) == f

Retirer(f, b, d) == [f EXCEPT ![b] = Moins(@, d)]

\* lines 58-76, the pairs visited in the order of the sequence paires, from
\* pair number k on
RECURSIVE AccumulerRepulsion(_, _, _, _)
AccumulerRepulsion(pos, paires, k, f) ==
    IF k > Len(paires) THEN f
    ELSE LET a == paires[k][1] + 1
             b == paires[k][2] + 1
             d == ForceRepulsion(Len(pos), Moins(pos[a], pos[b]))
         IN  AccumulerRepulsion(pos, paires, k + 1, Retirer(Ajouter(f, a, d), b, d))

\* lines 79-100, from edge number k on
RECURSIVE AccumulerAttraction(_, _, _, _)
AccumulerAttraction(pos, as, k, f) ==
    IF k > Len(as) THEN f
    ELSE LET a == as[k].from + 1
             b == as[k].to + 1
             d == ForceAttraction(PoidsLayout(as[k]), Moins(pos[b], pos[a]))
         IN  AccumulerAttraction(pos, as, k + 1, Retirer(Ajouter(f, a, d), b, d))

\* forces after lines 55-100, the pairs visited in the order of paires
calculer_forces_ordre(pos, paires, as) ==
    AccumulerAttraction(pos, as, 1,
        AccumulerRepulsion(pos, paires, 1, [a \in 1..Len(pos) |-> Nul]))

\* The same forces node by node: what the pairs (a, b), b > a, add to
\* forces[a] and what the pairs (b, a), b < a, take from it
RECURSIVE SommeRepulsion(_, _, _)
SommeRepulsion(pos, a, b) ==
    IF b > Len(pos) THEN Nul
    ELSE LET reste == SommeRepulsion(pos, a, b + 1)
         IN  IF b > a
             THEN Plus(reste, ForceRepulsion(Len(pos), Moins(pos[a], pos[b])))
             ELSE IF b < a
             THEN Moins(reste, ForceRepulsion(Len(pos), Moins(pos[b], pos[a])))
             ELSE reste

\* and for node a: the edges from a add, the edges to a take away
RECURSIVE SommeAttraction(_, _, _, _)
SommeAttraction(pos, as, a, k) ==
    IF k > Len(as) THEN Nul
    ELSE LET reste == SommeAttraction(pos, as, a, k + 1)
             f == ForceAttraction(PoidsLayout(as[k]),
                                  Moins(pos[as[k].to + 1], pos[as[k].from + 1]))
         IN  IF as[k].from + 1 = a THEN Plus(reste, f)
             ELSE IF as[k].to + 1 = a THEN Moins(reste, f)
             ELSE reste

ForcesParNoeud(pos, as) ==
    [a \in 1..Len(pos) |->
        Plus(SommeRepulsion(pos, a, 1), SommeAttraction(pos, as, a, 1))]

\* forces after lines 55-100: range(n) x range(i + 1, n), then the edges
calculer_forces(pos, as) == calculer_forces_ordre(pos, ToutesPaires(Len(pos)), as)

\* damping = 0.8, lines 103-107: 0.8 x a force in tenths, in fiftieths
Amortir(f) == [x |-> 4 * f.x, y |-> 4 * f.y, z |-> 4 * f.z]

appliquer_forces(pos, f) == [a \in 1..Len(pos) |-> Plus(pos[a], Amortir(f[a]))]

\* the distances lines 65-69 and 92-94 divide by, in one iteration
diviseurs_forces(pos, as) ==
    {[de |-> "dist", val |-> Q(Dist(Moins(pos[c[1]], pos[c[2]])), 50)] :
        c \in {c \in (1..Len(pos)) \X (1..Len(pos)) : c[1] < c[2]}}
    \cup {[de |-> "dist",
           val |-> Q(Dist(Moins(pos[as[k].to + 1], pos[as[k].from + 1])), 50)] :
            k \in 1..Len(as)}

\* Positions random.uniform can give: radius between 5 and 15.
PointsInitiaux ==
    << [x |-> 250, y |-> 0, z |-> 0],
       [x |-> 0, y |-> 500, z |-> 0],
       [x |-> 0 - 300, y |-> 0, z |-> 400],
       [x |-> 0, y |-> 0 - 450, z |-> 0 - 600],
       [x |-> 150, y |-> 200, z |-> 0] >>

\* Node k at the first point or at a point of its own, so that nodes can
\* coincide.
PlacementsInitiaux(n) ==
    [1..n -> {1}] \cup
    {p \in [1..n -> 1..Len(PointsInitiaux)] : \A k \in 1..n : p[k] \in {1, k}}

PoidsAretesLayout == {10000}

InitLayout ==
    /\ pc = "layout"
    /\ \E n \in 0..MaxFilms :
          /\ films_data = FilmsDistincts(n)
          /\ aretes \in AretesPossibles(n, PoidsAretesLayout)
    /\ i = 0 /\ j = 0
    /\ poidsRepos /\ filtreRepos /\ recoRepos
    /\ monoRepos /\ layoutRepos /\ diviseurs = {}

\* lines 33-34
RetournerVide ==
    /\ pc = "layout"
    /\ Len(films_data) = 0
    /\ pc' = "fini_layout"
    /\ UNCHANGED <<positions, forces, iteration, diviseurs, ordreVars,
                   poidsVars, aretesVars, filtreVars, recoVars, monoVars>>

InitialiserPositions_sauf_dernier ==
    /\ pc = "layout"
    /\ Len(films_data) # 0
    /\ \E p \in PlacementsInitiaux(Len(films_data) - 1) :
          positions' = [k \in 1..(Len(films_data) - 1) |-> PointsInitiaux[p[k]]]
    /\ forces' = <<>>
    /\ iteration' = 0
    /\ diviseurs' = {[de |-> "n", val |-> Q(Len(films_data), 1)]}
    /\ pc' = "forces"
    /\ UNCHANGED <<ordreVars, poidsVars, aretesVars, filtreVars, recoVars, monoVars>>

\* lines 36-52: one random position per record, then k = sqrt(15 * 15 / n)
InitialiserPositions ==
    /\ pc = "layout"
    /\ Len(films_data) # 0
    /\ \E p \in PlacementsInitiaux(Len(films_data)) :
          positions' = [k \in 1..Len(films_data) |-> PointsInitiaux[p[k]]]
    /\ forces' = <<>>
    /\ iteration' = 0
    /\ diviseurs' = {[de |-> "n", val |-> Q(Len(films_data), 1)]}
    /\ pc' = "forces"
    /\ UNCHANGED <<ordreVars, poidsVars, aretesVars, filtreVars, recoVars, monoVars>>

CalculerForces_sans_remise ==
    /\ pc = "forces"
    /\ iteration < ITERATIONS
    /\ diviseurs' = diviseurs_forces(positions, aretes)
    /\ IF \E d \in diviseurs_forces(positions, aretes) : d.val = Zero
       THEN /\ pc' = "ZeroDivisionError"
            /\ forces' = forces
       ELSE /\ pc' = "deplacer"
            /\ forces' = AccumulerAttraction(positions, aretes, 1,
                             AccumulerRepulsion(positions, ToutesPaires(Len(positions)), 1,
                                 IF forces = <<>> THEN [a \in 1..Len(positions) |-> Nul]
                                 ELSE forces))
    /\ UNCHANGED <<positions, iteration, ordreVars,
                   poidsVars, aretesVars, filtreVars, recoVars, monoVars>>

\* lines 54-100: the forces of one iteration, from the positions the
\* iteration starts with; a division by zero raises ZeroDivisionError
CalculerForces ==
    /\ pc = "forces"
    /\ iteration < ITERATIONS
    /\ diviseurs' = diviseurs_forces(positions, aretes)
    /\ IF \E d \in diviseurs_forces(positions, aretes) : d.val = Zero
       THEN /\ pc' = "ZeroDivisionError"
            /\ forces' = forces
       ELSE /\ pc' = "deplacer"
            /\ forces' = calculer_forces(positions, aretes)
    /\ UNCHANGED <<positions, iteration, ordreVars,
                   poidsVars, aretesVars, filtreVars, recoVars, monoVars>>

\* lines 102-107, and the loop variable moves on
AppliquerForces ==
    /\ pc = "deplacer"
    /\ positions' = appliquer_forces(positions, forces)
    /\ iteration' = iteration + 1
    /\ diviseurs' = {}
    /\ pc' = "forces"
    /\ UNCHANGED <<forces, ordreVars, poidsVars, aretesVars, filtreVars, recoVars, monoVars>>

\* line 109
RetournerPositions ==
    /\ pc = "forces"
    /\ iteration >= ITERATIONS
    /\ pc' = "fini_layout"
    /\ UNCHANGED <<positions, forces, iteration, diviseurs, ordreVars,
                   poidsVars, aretesVars, filtreVars, recoVars, monoVars>>

NextLayout ==
    \/ RetournerVide
    \/ InitialiserPositions
    \/ CalculerForces
    \/ AppliquerForces
    \/ RetournerPositions

SpecLayout == InitLayout /\ [][NextLayout]_vars

(***************************************************************************)
(* calculer_layout_simple run twice from the same initial positions: once  *)
(* as written, once visiting the pairs and the edges in another order      *)
(***************************************************************************)
\* Another order of a sequence: its first two items exchanged, the sequence
\* rotated by one, or the sequence reversed.
Echanger(seq) ==
    IF Len(seq) < 2 THEN seq ELSE <<seq[2], seq[1]>> \o SubSeq(seq, 3, Len(seq))

Tourner(seq) == IF Len(seq) < 2 THEN seq ELSE Tail(seq) \o <<Head(seq)>>

Renverser(seq) == [k \in 1..Len(seq) |-> seq[Len(seq) + 1 - k]]

AutreOrdre(sorte, seq) ==
    IF sorte = "echanger" THEN Echanger(seq)
    ELSE IF sorte = "tourner" THEN Tourner(seq)
    ELSE Renverser(seq)

InitOrdre ==
    /\ pc = "ordre"
    /\ \E n \in 2..MaxFilms :
          /\ films_data = FilmsDistincts(n)
          /\ aretes \in AretesPossibles(n, PoidsAretesLayout)
          /\ \E sorte \in {"echanger", "tourner", "renverser"} :
                /\ paires_perm = AutreOrdre(sorte, ToutesPaires(n))
                /\ aretes_perm = AutreOrdre(sorte, aretes)
    /\ i = 0 /\ j = 0
    /\ positions = <<>> /\ forces = <<>> /\ iteration = 0
    /\ positions_perm = <<>>
    /\ serveurRepos /\ enrichirRepos
    /\ poidsRepos /\ filtreRepos /\ recoRepos
    /\ monoRepos /\ diviseurs = {}

\* lines 36-52, the same random positions for both runs
InitialiserOrdre ==
    /\ pc = "ordre"
    /\ \E p \in PlacementsInitiaux(Len(films_data)) :
          /\ positions' = [k \in 1..Len(films_data) |-> PointsInitiaux[p[k]]]
          /\ positions_perm' = [k \in 1..Len(films_data) |-> PointsInitiaux[p[k]]]
    /\ iteration' = 0
    /\ pc' = "iterer"
    /\ UNCHANGED <<forces, paires_perm, aretes_perm, diviseurs, serveurVars, enrichirVars,
                   poidsVars, aretesVars, filtreVars, recoVars, monoVars>>

\* lines 54-107: one iteration of each run
IterationOrdre ==
    /\ pc = "iterer"
    /\ iteration < ITERATIONS
    /\ \E f \in {calculer_forces(positions, aretes)} :
          /\ forces' = f
          /\ positions' = appliquer_forces(positions, f)
    /\ positions_perm' =
          appliquer_forces(positions_perm,
                           calculer_forces_ordre(positions_perm, paires_perm, aretes_perm))
    /\ iteration' = iteration + 1
    /\ UNCHANGED <<pc, paires_perm, aretes_perm, diviseurs, serveurVars, enrichirVars,
                   poidsVars, aretesVars, filtreVars, recoVars, monoVars>>

\* line 109
RetournerOrdre ==
    /\ pc = "iterer"
    /\ iteration >= ITERATIONS
    /\ pc' = "fini_ordre"
    /\ UNCHANGED <<layoutVars, diviseurs,
                   poidsVars, aretesVars, filtreVars, recoVars, monoVars>>

NextOrdre == InitialiserOrdre \/ IterationOrdre \/ RetournerOrdre

SpecOrdre == InitOrdre /\ [][NextOrdre]_vars

(***************************************************************************)
(* enrichirBaseFilms.py                                                    *)
(***************************************************************************)
\* lines 13-23
normaliser_titre(titre) ==
    IF titre = <<>> THEN <<>>
    ELSE LET t  == strip(titre)
             t2 == IF FinitParAnnee(t)
                   THEN SansEspacesFin(SubSeq(t, 1, Len(t) - 6))
                   ELSE t
         IN  joindre_mots(upper(t2))

\* film.get("titre") or film.get("titre_original") or ""
TitreOuOriginal(film) == IF film.titre # <<>> THEN film.titre ELSE film.titre_original

\* the titles are compared as they are written
titre_deja_present_sans_normaliser(films, film_data) ==
    LET ref == TitreOuOriginal(film_data)
    IN  /\ ref # <<>>
        /\ \E k \in 1..Len(films) : TitreOuOriginal(films[k]) = ref

\* lines 26-40
titre_deja_present(films, film_data) ==
    LET ref == normaliser_titre(TitreOuOriginal(film_data))
    IN  /\ ref # <<>>
        /\ \E k \in 1..Len(films) : normaliser_titre(TitreOuOriginal(films[k])) = ref

\* lines 257-262, for a film scraper_film_par_id returned
AjouterSiAbsent(films, film_data) ==
    IF titre_deja_present(films, film_data) THEN films ELSE Append(films, film_data)

\* lines 239-264 for the films found, in the order the set is iterated in
RECURSIVE EnrichirDepuis(_, _, _)
EnrichirDepuis(films, ordre, k) ==
    IF k > Len(ordre) THEN films
    ELSE EnrichirDepuis(AjouterSiAbsent(films, ordre[k]), ordre, k + 1)

enrichir_base_films(films, ordre) == EnrichirDepuis(films, ordre, 1)

\* scraper_film_par_id, lines 329-330: both titles are the title IMDb gives
FilmEnrichi(titre) ==
    [titre |-> titre, titre_original |-> titre,
     acteurs |-> {}, realisateur |-> <<>>, genres |-> {}, annee |-> AnneeAbsente]

\* The records the films found by the search can scrape to: two whose titles
\* differ only by a year in brackets, one whose title is only a year in
\* brackets, one unlike the others.
CandidatsEnrichis ==
    { FilmEnrichi(<<"B">>),
      FilmEnrichi(<<"b", " ", "(", "1", "9", "9", "9", ")">>),
      FilmEnrichi(<<"(", "1", "9", "9", "9", ")">>),
      FilmEnrichi(<<"C">>) }

\* The records enrichir_base_films can be given: a title found for a search
\* string, or no title at all.
FilmsEntree ==
    { [FilmEnrichi(<<"A">>) EXCEPT !.titre_original = <<"a">>],
      [FilmEnrichi(<<"B">>) EXCEPT !.titre_original = <<"b">>],
      FilmEnrichi(<<>>) }

ListesEntree ==
    UNION {[1..n -> FilmsEntree] : n \in 0..MaxEntree}

InitEnrichir ==
    /\ pc = "enrichir"
    /\ films_data \in ListesEntree
    /\ films_entree = films_data
    /\ nouveaux_ids = {} /\ a_scraper = {}
    /\ aretes = <<>> /\ i = 0 /\ j = 0
    /\ serveurRepos
    /\ paires_perm = <<>> /\ aretes_perm = <<>> /\ positions_perm = <<>>
    /\ positions = <<>> /\ forces = <<>> /\ iteration = 0
    /\ poidsRepos /\ filtreRepos /\ recoRepos
    /\ monoRepos /\ diviseurs = {}

\* lines 195-236: the films the searches find (IMDb decides)
ChercherSimilaires ==
    /\ pc = "enrichir"
    /\ nouveaux_ids' \in SUBSET CandidatsEnrichis
    /\ a_scraper' = nouveaux_ids'
    /\ pc' = "scraper_nouveaux"
    /\ UNCHANGED <<films_entree, serveurVars, paires_perm, aretes_perm, positions_perm,
                   positions, forces, iteration, diviseurs,
                   poidsVars, aretesVars, filtreVars, recoVars, monoVars>>

\* lines 240-264 for one film of nouveaux_ids: ignored (not a movie, nothing
\* scraped, an exception), or appended unless its title is already present
ScraperNouveau ==
    /\ pc = "scraper_nouveaux"
    /\ \E film_data \in a_scraper :
          /\ a_scraper' = a_scraper \ {film_data}
          /\ \/ films_data' = films_data
             \/ films_data' = AjouterSiAbsent(films_data, film_data)
    /\ UNCHANGED <<pc, films_entree, nouveaux_ids, serveurVars,
                   paires_perm, aretes_perm, positions_perm,
                   positions, forces, iteration, diviseurs, aretes, i, j,
                   poidsVars, filtreVars, recoVars, monoVars>>

\* lines 266-272
RetournerEnrichi ==
    /\ pc = "scraper_nouveaux"
    /\ a_scraper = {}
    /\ pc' = "fini_enrichir"
    /\ UNCHANGED <<layoutVars, diviseurs,
                   poidsVars, aretesVars, filtreVars, recoVars, monoVars>>

NextEnrichir == ChercherSimilaires \/ ScraperNouveau \/ RetournerEnrichi

SpecEnrichir == InitEnrichir /\ [][NextEnrichir]_vars

(***************************************************************************)
(* serveurFichier.py, POST /api/reco, and scraperFilms.scraper_tous_films   *)
(***************************************************************************)
\* scraper_film, lines 425-430 and 495-496: the title IMDb gives for the
\* search string, and the search string
FilmScrape(titre_film) ==
    [titre |-> upper(titre_film), titre_original |-> titre_film,
     acteurs |-> {}, realisateur |-> <<>>, genres |-> {}, annee |-> AnneeAbsente]

\* scraperFilms.py lines 587-605, from item number k on; trouve[k] tells
\* whether scraper_film returns a record for the item
RECURSIVE ScraperDepuis(_, _, _, _, _)
ScraperDepuis(liste, k, titres_scrapes, trouve, films) ==
    IF k > Len(liste) THEN films
    ELSE IF upper(liste[k]) \in titres_scrapes
         THEN ScraperDepuis(liste, k + 1, titres_scrapes, trouve, films)
         ELSE IF trouve[k]
         THEN ScraperDepuis(liste, k + 1, titres_scrapes, trouve,
                            Append(films, FilmScrape(liste[k])))
         ELSE ScraperDepuis(liste, k + 1, titres_scrapes, trouve, films)

\* scraperFilms.py lines 553-613, force_reload not set: the records of the
\* cache, then the records scraped for the titles the cache does not hold
scraper_tous_films(en_cache, liste, trouve) ==
    ScraperDepuis(liste, 1,
                  {upper(en_cache[k].titre_original) : k \in 1..Len(en_cache)},
                  trouve, en_cache)

\* calculSimilarites.calculer_toutes_aretes as one function
calculer_toutes_aretes(films) ==
    LET paires == ToutesPaires(Len(films))
    IN  [k \in 1..Len(paires) |-> Arete(films, paires[k][1], paires[k][2])]

TitresSaisis == {<<"a">>, <<"A">>, <<"b">>}

ListesSaisies == UNION {[1..n -> TitresSaisis] : n \in 1..MaxSaisis}

\* The films the enrichment of a request finds, in the order it visits
\* them; their titles are none of TitresSaisis.
OrdresEnrichis ==
    LET c == FilmEnrichi(<<"C">>)
        d == FilmEnrichi(<<"D">>)
    IN  {<<>>, <<c>>, <<d>>, <<c, d>>, <<d, c>>}

InitServeur ==
    /\ pc = "attente"
    /\ cache = <<>> /\ liste_films = <<>> /\ enrichir = FALSE /\ requetes = 0
    /\ enrichirRepos
    /\ paires_perm = <<>> /\ aretes_perm = <<>> /\ positions_perm = <<>>
    /\ positions = <<>> /\ forces = <<>> /\ iteration = 0
    /\ poidsRepos /\ aretesRepos /\ filtreRepos /\ recoRepos
    /\ monoRepos /\ diviseurs = {}

\* serveurFichier.py lines 132-173: a request with a non-empty list of titles
RecevoirRequete ==
    /\ pc = "attente"
    /\ requetes < MaxRequetes
    /\ liste_films' \in ListesSaisies
    /\ enrichir' \in BOOLEAN
    /\ titres_connus' = {upper(liste_films'[k]) : k \in 1..Len(liste_films')}
    /\ pc' = "scraper"
    /\ UNCHANGED <<cache, requetes, enrichirVars, paires_perm, aretes_perm, positions_perm,
                   positions, forces, iteration, diviseurs,
                   nb_films_saisis, top_n, penaliser_populaires, indices_connus,
                   scores, scores_penalises, tries, recommandations,
                   poidsVars, aretesVars, filtreVars, monoVars>>

\* serveurFichier.py lines 186-189
ScraperTousFilms ==
    /\ pc = "scraper"
    /\ \E trouve \in [1..Len(liste_films) -> BOOLEAN] :
          /\ films_data' = scraper_tous_films(cache, liste_films, trouve)
          /\ cache' = films_data'
    /\ pc' = "compter"
    /\ UNCHANGED <<liste_films, enrichir, requetes, enrichirVars,
                   paires_perm, aretes_perm, positions_perm,
                   positions, forces, iteration, diviseurs, aretes, i, j,
                   poidsVars, filtreVars, recoVars, monoVars>>

\* serveurFichier.py lines 193-198; the searches of the enrichment start
\* from the records of films_data and find nothing when there is none
CompterEtEnrichir ==
    /\ pc = "compter"
    /\ nb_films_saisis' = Len(films_data)
    /\ IF enrichir /\ films_data # <<>>
       THEN \E ordre \in OrdresEnrichis :
               films_data' = enrichir_base_films(films_data, ordre)
       ELSE films_data' = films_data
    /\ pc' = "repondre"
    /\ UNCHANGED <<serveurVars, enrichirVars, paires_perm, aretes_perm, positions_perm,
                   positions, forces, iteration, diviseurs, aretes, i, j,
                   titres_connus, top_n, penaliser_populaires, indices_connus,
                   scores, scores_penalises, tries, recommandations,
                   poidsVars, filtreVars, monoVars>>

\* serveurFichier.py lines 200-220
RepondreReco ==
    /\ pc = "repondre"
    /\ aretes' = calculer_toutes_aretes(films_data)
    /\ cache' = films_data
    /\ seuil' = SEUIL_POIDS
    /\ aretes_filtrees' = filtrer_aretes(aretes', SEUIL_POIDS)
    /\ top_n' = 40
    /\ penaliser_populaires' = TRUE
    /\ \E r \in {recommander(films_data, filtrer_aretes(aretes', SEUIL_POIDS),
                              titres_connus, 40, TRUE, nb_films_saisis)} :
           /\ indices_connus' = r.indices_connus
           /\ scores' = r.scores
           /\ scores_penalises' = r.scores_penalises
           /\ tries' = r.tries
           /\ recommandations' = r.recommandations
    /\ requetes' = requetes + 1
    /\ pc' = "attente"
    /\ UNCHANGED <<films_data, i, j, liste_films, enrichir, enrichirVars,
                   paires_perm, aretes_perm, positions_perm,
                   positions, forces, iteration, diviseurs,
                   titres_connus, nb_films_saisis, seuil2, aretes_filtrees2,
                   poidsVars, monoVars>>

NextServeur == RecevoirRequete \/ ScraperTousFilms \/ CompterEtEnrichir \/ RepondreReco

SpecServeur == InitServeur /\ [][NextServeur]_vars

\* Every operation of the core that divides: the layout, the scoring and the
\* penalty (inside recommander, here with the first record known).
InitDiviseurs ==
    \/ InitLayout
    \/ InitReco /\ nb_films_saisis = 1 /\ titres_connus = {}

NextDiviseurs == NextLayout \/ NextReco

SpecDiviseurs == InitDiviseurs /\ [][NextDiviseurs]_vars

(***************************************************************************)
(* Properties of the graph builder                                         *)
(***************************************************************************)
\* C1: calculer_poids is symmetric: for every pair of records a, b,
\* calculer_poids(a, b) = calculer_poids(b, a).
C1_PoidsSymetrique ==
    pc = "fini_poids" => poids_12 = poids_21

C1_Temoin ==
    /\ pc = "fini_poids"
    /\ film1.acteurs # {} /\ film2.acteurs # {}
    /\ Cardinality(film1.acteurs) # Cardinality(film2.acteurs)
    /\ film1.acteurs \cap film2.acteurs # {}
    /\ film1.realisateur # film2.realisateur
    /\ film1.annee # film2.annee
    /\ poids_12.n > 0

EntreZeroEtUn(q) == LeQ(Zero, q) /\ LeQ(q, Un)

\* C2: calculer_poids returns a value in [0, 1], and every edge emitted by
\* calculer_toutes_aretes has a weight in [0, 1] (0 .. 10000 in 1/10000).
C2_PoidsBorne ==
    /\ pc = "fini_poids" => EntreZeroEtUn(poids_12) /\ EntreZeroEtUn(poids_21)
    /\ \A k \in 1..Len(aretes) : 0 <= aretes[k].weight /\ aretes[k].weight <= 10000

C2_Temoin ==
    /\ pc = "fini_aretes"
    /\ \E k \in 1..Len(aretes) : aretes[k].weight = 10000
    /\ \E k \in 1..Len(aretes) : aretes[k].weight % 100 # 0

\* C3: calculer_toutes_aretes emits exactly one edge for every pair
\* 0 <= a < b < N and nothing else: from < to on every edge, no pair twice,
\* N(N-1)/2 edges at the end.
C3_UneAreteParPaire ==
    LET N == Len(films_data)
    IN  /\ \A k \in 1..Len(aretes) :
              /\ 0 <= aretes[k].from
              /\ aretes[k].from < aretes[k].to
              /\ aretes[k].to < N
        /\ \A k, m \in 1..Len(aretes) :
              (aretes[k].from = aretes[m].from /\ aretes[k].to = aretes[m].to) => k = m
        /\ pc = "fini_aretes" =>
              /\ \A a, b \in 0..(N - 1) :
                    a < b => \E k \in 1..Len(aretes) :
                                aretes[k].from = a /\ aretes[k].to = b
              /\ 2 * Len(aretes) = N * (N - 1)

C3_Temoin ==
    /\ pc = "fini_aretes"
    /\ Len(films_data) = MaxFilms
    /\ Len(aretes) >= 3

(***************************************************************************)
(* Properties of the filter                                                *)
(***************************************************************************)
\* The positions of the edges of the list whose weight is at least s.
Gardees(s) == {k \in 1..Len(aretes) : aretes[k].weight >= s}

\* The m-th smallest element of a set of positions.
Rang(K, m) == CHOOSE k \in K : Cardinality({x \in K : x <= k}) = m

\* C4: filtrer_aretes(edges, t) returns exactly the edges of the input whose
\* weight is >= t (weight = t is kept), in their original relative order.
C4_FiltreExact ==
    pc = "fini_filtre" =>
        /\ Len(aretes_filtrees) = Cardinality(Gardees(seuil))
        /\ \A m \in 1..Len(aretes_filtrees) :
              aretes_filtrees[m] = aretes[Rang(Gardees(seuil), m)]

C4_Temoin ==
    /\ pc = "fini_filtre"
    /\ Len(aretes_filtrees) >= 2
    /\ Len(aretes_filtrees) < Len(aretes)
    /\ \E m \in 1..Len(aretes_filtrees) : aretes_filtrees[m].weight = seuil
    /\ \E m \in 1..Len(aretes_filtrees) : aretes_filtrees[m].weight > seuil

Elements(seq) == {seq[k] : k \in 1..Len(seq)}

\* C5: the filter is monotone in the threshold: with t1 <= t2, every edge of
\* filtrer_aretes(edges, t2) is an edge of filtrer_aretes(edges, t1).
C5_FiltreMonotone ==
    (pc = "fini_filtre" /\ seuil <= seuil2) =>
        Elements(aretes_filtrees2) \subseteq Elements(aretes_filtrees)

C5_Temoin ==
    /\ pc = "fini_filtre"
    /\ seuil < seuil2
    /\ aretes_filtrees2 # <<>>
    /\ Len(aretes_filtrees2) < Len(aretes_filtrees)
    /\ Len(aretes_filtrees) < Len(aretes)

(***************************************************************************)
(* Properties of the recommendation                                        *)
(***************************************************************************)
\* The positions of the edges that join the unknown node u to a known node.
VersConnus(u) ==
    {k \in 1..Len(aretes) :
        \/ aretes[k].from = u /\ aretes[k].to \in indices_connus
        \/ aretes[k].to = u /\ aretes[k].from \in indices_connus}

RECURSIVE SommePoids(_)
SommePoids(K) ==
    IF K = {} THEN 0
    ELSE LET k == CHOOSE x \in K : TRUE
         IN  aretes[k].weight + SommePoids(K \ {k})

Scores(u) == {k \in 1..Len(scores) : scores[k].idx = u}

\* C6: with a non-empty known set, each unknown node with at least one edge to
\* a known node gets the raw score (sum of the weights of those edges) /
\* (their number); edges with both ends known or both unknown count for no
\* node, and no other node (in particular no known node) gets a score.
C6_ScoreMoyen ==
    (pc = "fini_reco" /\ indices_connus # {}) =>
        /\ \A u \in 0..(Len(films_data) - 1) :
              IF u \notin indices_connus /\ VersConnus(u) # {}
              THEN /\ Cardinality(Scores(u)) = 1
                   /\ \A k \in Scores(u) :
                         scores[k].score =
                            Q(SommePoids(VersConnus(u)), Cardinality(VersConnus(u)))
              ELSE Scores(u) = {}
        /\ \A k \in 1..Len(scores) : scores[k].idx \in 0..(Len(films_data) - 1)

C6_Temoin ==
    /\ pc = "fini_reco"
    /\ Cardinality(indices_connus) >= 2
    /\ \E k \in 1..Len(aretes) :
          aretes[k].from \in indices_connus /\ aretes[k].to \in indices_connus
    /\ \E k \in 1..Len(scores) :
          /\ scores[k].nb_connexions >= 2
          /\ scores[k].score.d = 1
          /\ scores[k].score.n * 2 = scores[k].score_total
          /\ scores[k].score.n \notin PoidsReco

\* The known records as the caller states them: the first nb_films_saisis
\* records, or with no such count the records one of whose titles is a known
\* title up to case and spacing.
ConnusAttendus ==
    IF nb_films_saisis > 0
    THEN {u \in 0..(Len(films_data) - 1) : u < nb_films_saisis}
    ELSE {u \in 0..(Len(films_data) - 1) :
            \E t \in titres_connus :
                \/ normalize(t) = normalize(films_data[u + 1].titre)
                \/ normalize(t) = normalize(films_data[u + 1].titre_original)}

\* C7: no known index appears in the list recommander returns.
C7_ConnusExclus ==
    pc = "fini_reco" =>
        \A k \in 1..Len(recommandations) : recommandations[k].idx \notin ConnusAttendus

C7_Temoin ==
    /\ pc = "fini_reco"
    /\ nb_films_saisis = 2
    /\ indices_connus = {0, 1}
    /\ \E k \in 1..Len(aretes) : aretes[k].from = 0 /\ aretes[k].to = 1
    /\ recommandations # <<>>

\* C8: the returned list is ordered by score, non-increasing.
C8_ScoresDecroissants ==
    pc = "fini_reco" =>
        \A k \in 1..(Len(recommandations) - 1) :
            LeQ(recommandations[k + 1].score, recommandations[k].score)

C8_Temoin ==
    /\ pc = "fini_reco"
    /\ penaliser_populaires
    /\ Len(recommandations) >= 2
    /\ LtQ(recommandations[2].score, recommandations[1].score)
    /\ scores[1].idx = recommandations[2].idx
    /\ LtQ(recommandations[2].score, scores[1].score)
    /\ ~LtQ(scores[1].score, recommandations[1].score)

\* Whether the candidate at position k of the sorted list is returned.
Retenu(k) == \E m \in 1..Len(recommandations) : recommandations[m].idx = tries[k].idx

\* C9 as stated: of two candidates whose normalised titles match, only the
\* higher-scoring one is in the returned list.
C9_DoublonsTousTitres ==
    pc = "fini_reco" =>
        \A a, b \in 1..Len(tries) :
            (a # b /\ TitreReco(tries[a].film) = TitreReco(tries[b].film)) =>
                /\ ~(Retenu(a) /\ Retenu(b))
                /\ Retenu(b) => LeQ(tries[a].score, tries[b].score)

\* C9, amended: of two candidates whose normalised titles match and are not
\* empty, only the higher-scoring one is in the returned list.
C9_DoublonsTitresNonVides ==
    pc = "fini_reco" =>
        \A a, b \in 1..Len(tries) :
            (/\ a # b
             /\ TitreReco(tries[a].film) # <<>>
             /\ TitreReco(tries[a].film) = TitreReco(tries[b].film)) =>
                /\ ~(Retenu(a) /\ Retenu(b))
                /\ Retenu(b) => LeQ(tries[a].score, tries[b].score)

C9_Temoin ==
    /\ pc = "fini_reco"
    /\ \E a, b \in 1..Len(tries) :
          /\ a < b
          /\ tries[a].film # tries[b].film
          /\ TitreReco(tries[a].film) # <<>>
          /\ TitreReco(tries[a].film) = TitreReco(tries[b].film)
          /\ LtQ(tries[b].score, tries[a].score)
          /\ Retenu(a) /\ ~Retenu(b)
          /\ \E c \in (b + 1)..Len(tries) : Retenu(c)

\* The positions of the sorted list that no earlier position with the same
\* non-empty normalised title precedes.
Premiers ==
    {k \in 1..Len(tries) :
        \/ TitreReco(tries[k].film) = <<>>
        \/ \A m \in 1..(k - 1) : TitreReco(tries[m].film) # TitreReco(tries[k].film)}

\* C10: recommander returns at most top_n entries: the first top_n entries of
\* the sorted list after deduplication.
C10_TopNApresDedup ==
    pc = "fini_reco" =>
        /\ Len(recommandations) <= top_n
        /\ Len(recommandations) = Min(top_n, Cardinality(Premiers))
        /\ \A m \in 1..Len(recommandations) :
              recommandations[m] = tries[Rang(Premiers, m)]

C10_Temoin ==
    /\ pc = "fini_reco"
    /\ top_n = 2
    /\ Len(tries) >= 3
    /\ Cardinality(Premiers) >= 2
    /\ 2 \notin Premiers
    /\ Len(recommandations) = 2
    /\ recommandations[2] = tries[3]


(***************************************************************************)
(* Properties of the popularity penalty                                    *)
(***************************************************************************)
\* The edges of the whole list that touch node u.
AretesTouchant(u) == {k \in 1..Len(aretes) : aretes[k].from = u \/ aretes[k].to = u}

DegreAttendu(u) == Cardinality(AretesTouchant(u))

\* The nodes with at least one edge, and the mean of their degrees.
NoeudsRelies == {u \in 0..(Len(films_data) - 1) : AretesTouchant(u) # {}}

DegreMoyenAttendu == Q(2 * Len(aretes), Cardinality(NoeudsRelies))

AuDessusDeLaMoyenne(u) ==
    DegreAttendu(u) * Cardinality(NoeudsRelies) > 2 * Len(aretes)

\* (degree - meanDegree) / meanDegree x 0.1
PenaliteAttendue(u) ==
    MulQ(DivQ(SubQ(Q(DegreAttendu(u), 1), DegreMoyenAttendu), DegreMoyenAttendu),
         Q(1, 10))

PenaliteAppliquee ==
    pc = "fini_reco" /\ penaliser_populaires /\ scores # <<>>

\* C11 as stated: every scored node whose degree exceeds the mean degree has
\* penalised score = raw score - (degree - meanDegree) / meanDegree x 0.1.
C11_PenaliteSoustraite ==
    PenaliteAppliquee =>
        \A k \in 1..Len(scores) :
            AuDessusDeLaMoyenne(scores[k].idx) =>
                scores_penalises[k].score
                    = SubQ(scores[k].score, PenaliteAttendue(scores[k].idx))

\* C11 amended: every scored node whose degree exceeds the mean degree has
\* its raw score multiplied by 1 - (degree - meanDegree) / meanDegree x 0.1,
\* so the reduction is that fraction of the raw score.
C11_PenaliteProportionnelle ==
    PenaliteAppliquee =>
        \A k \in 1..Len(scores) :
            AuDessusDeLaMoyenne(scores[k].idx) =>
                /\ scores_penalises[k].idx = scores[k].idx
                /\ scores_penalises[k].score
                      = MulQ(scores[k].score,
                             SubQ(Un, PenaliteAttendue(scores[k].idx)))

C11_Temoin ==
    /\ PenaliteAppliquee
    /\ \E k \in 1..Len(scores) :
          /\ AuDessusDeLaMoyenne(scores[k].idx)
          /\ LtQ(scores_penalises[k].score, scores[k].score)
          /\ LtQ(Zero, scores_penalises[k].score)

\* C12: the degree of a node counts the edges of the whole edge list that
\* touch it, the mean is taken over the nodes with at least one edge, and a
\* scored node whose degree is at most the mean keeps its raw score.
C12_DegreEtScoreInchange ==
    PenaliteAppliquee =>
        \A k \in 1..Len(scores) :
            /\ scores_penalises[k].idx = scores[k].idx
            /\ scores_penalises[k].degre = DegreAttendu(scores[k].idx)
            /\ ~AuDessusDeLaMoyenne(scores[k].idx)
                  => scores_penalises[k].score = scores[k].score

\* A scored node with an edge to another unknown node, at the mean or below,
\* next to a scored node the penalty lowers.
C12_Temoin ==
    /\ PenaliteAppliquee
    /\ \E k, m \in 1..Len(scores) :
          /\ scores_penalises[k].degre > scores[k].nb_connexions
          /\ ~AuDessusDeLaMoyenne(scores[k].idx)
          /\ scores_penalises[k].score = scores[k].score
          /\ LtQ(scores_penalises[m].score, scores[m].score)


(***************************************************************************)
(* Degenerate inputs and the choice of the known records                   *)
(***************************************************************************)
\* C13: when no record is known, calculer_scores_recommandation returns the
\* empty mapping and recommander returns the empty list.
C13_AucunConnu ==
    (pc = "fini_reco" /\ ConnusAttendus = {}) =>
        /\ calculer_scores_recommandation(films_data, aretes, {}) = <<>>
        /\ scores = <<>>
        /\ recommandations = <<>>

\* Known titles were given, none is the title of a record, and there are
\* edges to score.
C13_Temoin ==
    /\ pc = "fini_reco"
    /\ ConnusAttendus = {}
    /\ nb_films_saisis = 0
    /\ titres_connus # {}
    /\ Len(films_data) >= 2
    /\ aretes # <<>>
    /\ recommandations = <<>>

\* C14: with no record or with no edge, recommander returns the empty list,
\* whatever the known records and top_n are.
C14_EntreesVides ==
    (pc = "fini_reco" /\ (films_data = <<>> \/ aretes = <<>>)) =>
        recommandations = <<>>

\* Records, a known one and unknown ones, a positive top_n, and no edge.
C14_Temoin ==
    /\ pc = "fini_reco"
    /\ aretes = <<>>
    /\ indices_connus # {}
    /\ Cardinality(indices_connus) < Len(films_data)
    /\ top_n > 0
    /\ recommandations = <<>>

\* The records one of whose titles is a known title up to case and spacing.
ConnusParTitre ==
    {u \in 0..(Len(films_data) - 1) :
        \E t \in titres_connus :
            \/ normalize(t) = normalize(films_data[u + 1].titre)
            \/ normalize(t) = normalize(films_data[u + 1].titre_original)}

\* C15: with a count K > 0 the known records are exactly the first
\* min(K, N) records, whatever titles are also given; the titles are matched
\* only when there is no positive K.
C15_PositionAvantTitres ==
    pc = "fini_reco" =>
        /\ nb_films_saisis > 0 =>
              indices_connus = {u \in 0..(Len(films_data) - 1) : u + 1 <= nb_films_saisis}
        /\ ~(nb_films_saisis > 0) => indices_connus = ConnusParTitre

\* K = 1 with titles that match the first two records.
C15_Temoin ==
    /\ pc = "fini_reco"
    /\ nb_films_saisis = 1
    /\ {0, 1} \subseteq ConnusParTitre
    /\ indices_connus = {0}


(***************************************************************************)
(* Monotonicity of the raw score                                           *)
(***************************************************************************)
\* The raw score of node u in sc; u must be scored.
ScoreDe(sc, u) == sc[CHOOSE k \in 1..Len(sc) : sc[k].idx = u].score

EstNote(sc, u) == \E k \in 1..Len(sc) : sc[k].idx = u

\* The unknown endpoints of the edges whose weight was raised and whose other
\* endpoint is known.
InconnusReleves ==
    {u \in 0..(Len(films_data) - 1) :
        /\ u \notin indices_connus
        /\ \E k \in 1..Len(aretes) :
              /\ aretes_plus[k].weight > aretes[k].weight
              /\ \/ aretes[k].from = u /\ aretes[k].to \in indices_connus
                 \/ aretes[k].to = u /\ aretes[k].from \in indices_connus}

\* C16: raising the weight of one edge that joins a known node and an
\* unknown node u, everything else fixed, never lowers the raw score of u.
C16_ScoreMonotone ==
    pc = "fini_scores" =>
        \A u \in InconnusReleves :
            /\ EstNote(scores, u) /\ EstNote(scores_plus, u)
            /\ LeQ(ScoreDe(scores, u), ScoreDe(scores_plus, u))

\* u has two known neighbours, the weight of one of its edges was raised and
\* its raw score rose.
C16_Temoin ==
    /\ pc = "fini_scores"
    /\ \E u \in InconnusReleves :
          /\ \E k \in 1..Len(scores) : scores[k].idx = u /\ scores[k].nb_connexions = 2
          /\ LtQ(ScoreDe(scores, u), ScoreDe(scores_plus, u))


(***************************************************************************)
(* Properties of the layout                                                *)
(***************************************************************************)
\* C17: no division of the core has a zero divisor: every distance the
\* layout divides by is at least 0.1, also for nodes at the same position,
\* and 15 * 15 is divided by n only for n >= 1; the mean degree the penalty
\* divides by (and the number of nodes it is a mean over) is positive
\* whenever it is used; the number of connections a raw score is divided by
\* is at least 1.
C17_PasDeDivisionParZero ==
    /\ pc # "ZeroDivisionError"
    /\ \A d \in diviseurs :
          /\ d.de = "dist" => LeQ(Q(1, 10), d.val)
          /\ d.de = "n" => LeQ(Un, d.val)
          /\ d.de = "len_degres" => LeQ(Un, d.val)
          /\ d.de = "degre_moyen" => LtQ(Zero, d.val)
          /\ d.de = "connexions" => LeQ(Un, d.val)

\* Two nodes at the same position: the distance divided by is exactly 0.1,
\* and the forces were computed.
C17_Temoin ==
    /\ pc = "deplacer"
    /\ \E a, b \in 1..Len(positions) : a < b /\ positions[a] = positions[b]
    /\ [de |-> "dist", val |-> Q(1, 10)] \in diviseurs
    /\ Len(forces) = Len(positions)

\* C18: calculer_layout_simple holds, and returns, exactly one position
\* {x, y, z} per record, position k for record k; for no record it returns
\* the empty sequence.
C18_UnePositionParFilm ==
    /\ pc \in {"forces", "deplacer", "fini_layout"} =>
          /\ DOMAIN positions = 1..Len(films_data)
          /\ \A k \in 1..Len(positions) : DOMAIN positions[k] = {"x", "y", "z"}
    /\ (pc = "fini_layout" /\ films_data = <<>>) => positions = <<>>

\* Three records with an edge, after the 50 iterations.
C18_Temoin ==
    /\ pc = "fini_layout"
    /\ iteration = ITERATIONS
    /\ Len(films_data) = 3
    /\ Len(positions) = 3
    /\ aretes # <<>>
    /\ positions[1] # positions[2]


(***************************************************************************)
(* Properties of the genre similarity                                      *)
(***************************************************************************)
\* Two records with nothing but genres: the weight is 0.2 x the genre
\* similarity.
GenresSeuls ==
    /\ pc = "fini_poids"
    /\ film1.acteurs = {} /\ film2.acteurs = {}
    /\ film1.realisateur = <<>> /\ film2.realisateur = <<>>
    /\ film1.annee = AnneeAbsente /\ film2.annee = AnneeAbsente

GenresCommuns == Cardinality(film1.genres \cap film2.genres)

Jaccard == Q(GenresCommuns, Cardinality(film1.genres \cup film2.genres))

\* C20 as stated: 0 if either genre set is empty, otherwise the Jaccard
\* index, multiplied when more than one genre is common by 1 + 0.15 per
\* common genre beyond the first, and capped at 1.
C20_BonusParGenreSupplementaire ==
    GenresSeuls =>
        poids_12 = MulQ(Q(2, 10),
                        IF film1.genres = {} \/ film2.genres = {} THEN Zero
                        ELSE IF GenresCommuns > 1
                        THEN MinQ(Un, MulQ(Jaccard,
                                           Q(100 + 15 * (GenresCommuns - 1), 100)))
                        ELSE Jaccard)

\* C20 amended: 0 if either genre set is empty, otherwise the Jaccard index,
\* multiplied when more than one genre is common by 1 + 0.15 per common
\* genre (the first included), and capped at 1.
C20_BonusParGenreCommun ==
    GenresSeuls =>
        poids_12 = MulQ(Q(2, 10),
                        IF film1.genres = {} \/ film2.genres = {} THEN Zero
                        ELSE IF GenresCommuns > 1
                        THEN MinQ(Un, MulQ(Jaccard,
                                           Q(100 + 15 * GenresCommuns, 100)))
                        ELSE Jaccard)

\* Two common genres out of three: 2/3 x 1.3, below the cap.
C20_Temoin ==
    /\ GenresSeuls
    /\ GenresCommuns = 2
    /\ Cardinality(film1.genres \cup film2.genres) = 3
    /\ poids_12 = MulQ(Q(2, 10), Q(13, 15))


(***************************************************************************)
(* The scenarios                                                           *)
(***************************************************************************)
ScenarioC ==
    /\ pc = "fini_reco"
    /\ Len(films_data) = 3
    /\ \A a, b \in 1..3 : a # b => TitreReco(films_data[a]) # TitreReco(films_data[b])
    /\ ConnusAttendus = {0}
    /\ aretes = << [from |-> 0, to |-> 1, weight |-> 8000],
                   [from |-> 0, to |-> 2, weight |-> 2000],
                   [from |-> 1, to |-> 2, weight |-> 9000] >>

\* C21: in scenario C (record 0 known, edges (0,1,0.8), (0,2,0.2), (1,2,0.9),
\* three distinct titles) the raw scores are 0.8 for node 1 and 0.2 for node
\* 2 (scores count 1/10000, as the weights do), and recommander returns the
\* candidates 1, 2 in this order.
C21_ScenarioC ==
    ScenarioC =>
        /\ {<<scores[k].idx, scores[k].score>> : k \in 1..Len(scores)}
              = {<<1, Q(8000, 1)>>, <<2, Q(2000, 1)>>}
        /\ top_n >= 2 =>
              [k \in 1..Len(recommandations) |-> recommandations[k].idx] = <<1, 2>>

C21_Temoin ==
    /\ ScenarioC
    /\ top_n = 2
    /\ penaliser_populaires
    /\ Len(recommandations) = 2
    /\ recommandations[1].idx = 1

\* Same director up to case, no common actor, no common genre, and not two
\* equal years.
ScenarioA ==
    /\ pc = "fini_poids"
    /\ film1.realisateur # <<>>
    /\ lower(film1.realisateur) = lower(film2.realisateur)
    /\ film1.acteurs \cap film2.acteurs = {}
    /\ film1.genres \cap film2.genres = {}
    /\ \/ film1.annee = AnneeAbsente
       \/ film2.annee = AnneeAbsente
       \/ film1.annee # film2.annee

UneAnneeAbsente == film1.annee = AnneeAbsente \/ film2.annee = AnneeAbsente

ScenarioB ==
    /\ pc = "fini_poids"
    /\ film1.genres = {"Action", "Drama"} /\ film2.genres = {"Action", "Drama"}
    /\ Cardinality(film1.acteurs) = 2 /\ Cardinality(film2.acteurs) = 2
    /\ Cardinality(film1.acteurs \cap film2.acteurs) = 1
    /\ \/ film1.realisateur = <<>>
       \/ film2.realisateur = <<>>
       \/ lower(film1.realisateur) # lower(film2.realisateur)
    /\ UneAnneeAbsente

\* C23: in scenario B the actor similarity is 1/3, the genre similarity is 1
\* and the weight is 1 x 0.2 + (1/3) x 0.3 = 0.3.
C23_ScenarioB ==
    ScenarioB =>
        /\ calculer_similarite_acteurs(film1, film2) = Q(1, 3)
        /\ calculer_similarite_genres(film1, film2) = Un
        /\ poids_12 = Q(3, 10)

C23_Temoin ==
    /\ ScenarioB
    /\ film1.realisateur # <<>> /\ film2.realisateur # <<>>
    /\ film1.annee # AnneeAbsente
    /\ poids_12 = Q(3, 10)
    /\ poids_21 = Q(3, 10)


\* The sum of a sequence of vectors.
RECURSIVE SommeVecteurs(_)
SommeVecteurs(vs) ==
    IF vs = <<>> THEN Nul ELSE Plus(Head(vs), SommeVecteurs(Tail(vs)))

\* C24: the layout runs 50 iterations, each one synchronous step: the
\* forces of an iteration are computed afresh (nothing carried over from the
\* iteration before) from the positions the iteration starts with, no
\* position changing meanwhile, and only then every node moves by its
\* force x 0.8; positions are returned after exactly 50 such moves.
C24_IterationsSynchrones ==
    [][/\ (pc = "forces" /\ pc' = "deplacer") =>
            /\ positions' = positions
            /\ iteration' = iteration
            /\ forces' = ForcesParNoeud(positions, aretes)
       /\ (pc = "deplacer" /\ pc' = "forces") =>
            /\ forces' = forces
            /\ iteration' = iteration + 1
            /\ positions' = [a \in 1..Len(positions) |->
                                [x |-> positions[a].x + 4 * forces[a].x,
                                 y |-> positions[a].y + 4 * forces[a].y,
                                 z |-> positions[a].z + 4 * forces[a].z]]
       /\ (pc = "layout" /\ pc' = "forces") => iteration' = 0
       /\ (pc = "forces" /\ pc' = "fini_layout") =>
            /\ iteration = 50
            /\ positions' = positions
       /\ pc' \in {"forces", "deplacer"} => iteration' <= 50]_vars

\* The last iteration has moved the nodes of a graph with an edge.
C24_Temoin ==
    /\ pc = "fini_layout"
    /\ iteration = 50
    /\ aretes # <<>>
    /\ \E a \in 1..Len(forces) : forces[a] # Nul

\* C25: for the same initial positions the positions calculer_layout_simple
\* produces do not depend on the order in which the node pairs are visited
\* nor on the order of the edges in the edge sequence.
C25_OrdreIndifferent ==
    pc \in {"iterer", "fini_ordre"} => positions_perm = positions

\* Three edges in another order and three pairs in another order, after the
\* 50 iterations.
C25_Temoin ==
    /\ pc = "fini_ordre"
    /\ iteration = ITERATIONS
    /\ Len(aretes) = 3
    /\ aretes_perm # aretes
    /\ paires_perm # ToutesPaires(Len(films_data))
    /\ positions_perm = positions
    /\ \A a, b \in 1..Len(positions) : a # b => positions[a] # positions[b]

\* C29: in every iteration the forces sum to the zero vector over all
\* nodes, and the sum of the positions (so their centroid) is after every
\* iteration what it was before it.
C29_SommeNulleCentroideFixe ==
    [][/\ pc' = "deplacer" => SommeVecteurs(forces') = Nul
       /\ (pc = "deplacer" /\ pc' = "forces") =>
             SommeVecteurs(positions') = SommeVecteurs(positions)]_vars

\* Three nodes, an edge, forces that are not all zero, and the centroid of
\* the three initial points after the 50 iterations.
C29_Temoin ==
    /\ pc = "fini_layout"
    /\ Len(positions) = 3
    /\ aretes # <<>>
    /\ \E a \in 1..3 : forces[a] # Nul
    /\ SommeVecteurs(positions)
          = Plus(PointsInitiaux[1], Plus(PointsInitiaux[2], PointsInitiaux[3]))


\* C30: a candidate whose normalised title is empty is never removed by the
\* deduplication of recommander: it is missing from the returned list only
\* when the list is full of candidates ranked before it, so several such
\* candidates can all be returned.
C30_TitreVideJamaisRetire ==
    pc = "fini_reco" =>
        \A p \in 1..Len(tries) :
            TitreReco(tries[p].film) = <<>> =>
                /\ Len(recommandations) < top_n => Retenu(p)
                /\ ~Retenu(p) => \A k \in (p + 1)..Len(tries) : ~Retenu(k)

\* Two candidates without any title, both returned.
C30_Temoin ==
    /\ pc = "fini_reco"
    /\ \E a, b \in 1..Len(tries) :
          /\ a < b
          /\ tries[a].film.titre = <<>> /\ tries[a].film.titre_original = <<>>
          /\ tries[b].film.titre = <<>> /\ tries[b].film.titre_original = <<>>
          /\ Retenu(a) /\ Retenu(b)


\* C28: whatever the edges, of weights in [0, 1], every score of the list
\* recommander returns lies in [0, 1], with the popularity penalty too: the
\* penalty makes no score negative and raises none above the raw score.
C28_ScoresEntreZeroEtUn ==
    pc = "fini_reco" =>
        \A m \in 1..Len(recommandations) :
            /\ LeQ(Zero, recommandations[m].score)
            /\ LeQ(recommandations[m].score, Q(10000, 1))
            /\ \A k \in 1..Len(scores) :
                  scores[k].idx = recommandations[m].idx =>
                      LeQ(recommandations[m].score, scores[k].score)


\* The 0-based positions of the records of films_data that come from the
\* titles of the current request: scraped for one of them, or held by the
\* cache under one of them.
FilmsDeLaRequete ==
    {k - 1 : k \in {x \in 1..Len(films_data) :
                      \E t \in 1..Len(liste_films) :
                          upper(films_data[x].titre_original) = upper(liste_films[t])}}

\* C26: in the /api/reco handler, over any sequence of requests with the
\* cache kept on disk between them, the count passed to recommander as
\* nb_films_saisis is the number of records that come from the films
\* submitted in the current request, and no record added by enrichment or
\* left in the cache by an earlier request is taken for a known film.
C26_KCompteLesFilmsSaisis ==
    /\ pc = "repondre" => nb_films_saisis = Cardinality(FilmsDeLaRequete)
    /\ (pc = "attente" /\ requetes > 0) => indices_connus \subseteq FilmsDeLaRequete

=============================================================================
